---- MODULE Spec2Model ----
(***************************************************************************)
(* A model of the xv6-rust kernel's concurrency and I/O substrate:         *)
(* spinlocks and interrupt nesting (src/src/kernel/spinlock.rs), the       *)
(* scheduler with sleep/wakeup (src/kernel/src/proc.rs), sleep locks       *)
(* (src/kernel/src/sleeplock.rs), the buffer cache (src/kernel/src/bio.rs) *)
(* and the redo log (src/kernel/src/log.rs).                               *)
(***************************************************************************)
EXTENDS Integers, Sequences, FiniteSets, TLC

\* ------------------------------------------------------------------ bounds
NCPU == 2
MaxNoff == 3

Cpus == 0 .. (NCPU - 1)
\* The harts whose scheduler loop runs the processes of PROCS.
SchedCpus == {0, 1}
None == "None"

\* Spinlock objects.  <<"lk",0>> is a caller's condition lock, <<"slk",0>>
\* the spinlock inside a sleep lock, <<"proc",p>> the lock of PROCS[p].
LK == <<"lk", 0>>
SLK == <<"slk", 0>>
FreeLocks == {LK, SLK}

VARIABLES
    cpus,      \* CPUS[c]: noff, intena, proc; sie is the hart's sstatus.SIE
    locks,     \* Spinlock objects: locked, cpu
    hpc,       \* position of the bare kernel thread on hart c
    harg,      \* the lock that thread is acquiring / releasing
    held,      \* locks the thread is between acquire()'s return and release()
    callHeld,  \* whether the thread held harg when it made the call
    hcall,     \* the thread's latest call: "acquire", "release" or None
    rawpush,   \* push_off() calls of the thread not yet popped
    before,    \* SIE of the hart right before the thread's outermost push_off
    hpanic,    \* panic message of the hart, or None
    procs,     \* PROCS[p]: state, chan (p.lock is locks[<<"proc",p>>])
    th,        \* kernel thread of process p: position and locals
    sch,       \* scheduler thread of hart c: position, scan index
    work,      \* items in the queue guarded by LK
    slp,       \* the Sleeplock object: locked, pid
    mem,       \* DUMMY_HEAD (address HEAD) and BCACHE.buf[1..NBUF]
    bclock,    \* holder of BCACHE.lock, {} when free
    booted,    \* binit has run
    disk,      \* the disk: block number -> block content
    bt,        \* buffer-cache caller p: latest request and how it ended
    LOG,       \* the in-memory Log
    lt,        \* log caller p: position, panic, locals
    gh,        \* bookkeeping of the transactions for the log's contracts
    xv,        \* exec: the calling process, the inode, page tables, the call
    km,        \* kalloc: KMEM.freelist, its lock, and the callers' frames
    pp,        \* pipe: the Pipe object and its writer and reader
    wt,        \* wait / exit: process slots, wait_lock, the two callers
    fk,        \* fork: process slots, file and inode references, the call
    cl,        \* close: the caller's ofile, FTABLE ref counts, the call
    iv,        \* iput: the inode, its disk blocks, the transaction
    kt,        \* usertrap: the process's killed flag and its trap handling
    nx,        \* namex: the path being resolved and the names looked up
    ia,        \* ialloc / create: on-disk inodes, directory entries, the call
    vm,        \* page tables: the page-table pages, the frames, the call
    lw,        \* log callers: header, outstanding, committing, pins
    pk,        \* process calls: parent, killed, pid, fsinit runs, locals
    it,        \* inode table: entries, callers' references, calls
    ft,        \* open files: FTABLE and every process's descriptors
    vd         \* virtio disk: descriptors, rings, requests

lockVars == <<cpus, locks>>
hartVars == <<hpc, harg, held, callHeld, hcall, rawpush, before, hpanic>>
procVars == <<procs, th, sch, work, slp>>
bioVars == <<mem, bclock, booted, disk, bt>>
logVars == <<LOG, lt, gh>>
sysVars == <<xv, km, pp, wt, fk, cl, iv, kt, nx, ia, vm, lw, pk, it, ft, vd>>
otherL == <<procVars, bioVars, logVars, sysVars>>
otherP == <<hartVars, bioVars, logVars, sysVars>>
otherB == <<lockVars, hartVars, procVars, logVars, sysVars>>
otherG == <<lockVars, hartVars, procVars, sysVars>>
coreVars == <<lockVars, hartVars, procVars, bioVars, logVars>>
otherXv == <<coreVars, km, pp, wt, fk, cl, iv, kt, nx, ia, vm, lw, pk, it, ft, vd>>
otherKm == <<coreVars, xv, pp, wt, fk, cl, iv, kt, nx, ia, vm, lw, pk, it, ft, vd>>
otherPp == <<coreVars, xv, km, wt, fk, cl, iv, kt, nx, ia, vm, lw, pk, it, ft, vd>>
otherWt == <<coreVars, xv, km, pp, fk, cl, iv, kt, nx, ia, vm, lw, pk, it, ft, vd>>
otherFk == <<coreVars, xv, km, pp, wt, cl, iv, kt, nx, ia, vm, lw, pk, it, ft, vd>>
otherCl == <<coreVars, xv, km, pp, wt, fk, iv, kt, nx, ia, vm, lw, pk, it, ft, vd>>
otherIv == <<coreVars, xv, km, pp, wt, fk, cl, kt, nx, ia, vm, lw, pk, it, ft, vd>>
otherKt == <<coreVars, xv, km, pp, wt, fk, cl, iv, nx, ia, vm, lw, pk, it, ft, vd>>
otherNx == <<coreVars, xv, km, pp, wt, fk, cl, iv, kt, ia, vm, lw, pk, it, ft, vd>>
otherIa == <<coreVars, xv, km, pp, wt, fk, cl, iv, kt, nx, vm, lw, pk, it, ft, vd>>
otherVm == <<coreVars, xv, km, pp, wt, fk, cl, iv, kt, nx, ia, lw, pk, it, ft, vd>>
otherLw == <<coreVars, xv, km, pp, wt, fk, cl, iv, kt, nx, ia, vm, pk, it, ft, vd>>
otherPk == <<coreVars, xv, km, pp, wt, fk, cl, iv, kt, nx, ia, vm, lw, it, ft, vd>>
otherIt == <<coreVars, xv, km, pp, wt, fk, cl, iv, kt, nx, ia, vm, lw, pk, ft, vd>>
otherFt == <<coreVars, xv, km, pp, wt, fk, cl, iv, kt, nx, ia, vm, lw, pk, it, vd>>
otherVd == <<coreVars, xv, km, pp, wt, fk, cl, iv, kt, nx, ia, vm, lw, pk, it, ft>>

\* ------------------------------------------- riscv.rs: interrupt enable bit
intr_get(cs, c) == cs[c].sie
intr_off(cs, c) == [cs EXCEPT ![c].sie = FALSE]
intr_on(cs, c) == [cs EXCEPT ![c].sie = TRUE]

\* ------------------------------------------------- spinlock.rs: push/pop
\* noff is a u8.
U8 == 256

push_off(cs, c) ==
    LET old == intr_get(cs, c)
        off == intr_off(cs, c)
        rec == IF off[c].noff = 0 THEN [off EXCEPT ![c].intena = old] ELSE off
    IN  [rec EXCEPT ![c].noff = (@ + 1) % U8]

\* The panic pop_off raises on hart c, or None.
pop_off_panic(cs, c) ==
    IF intr_get(cs, c) THEN "pop_off - interruptible"
    ELSE IF cs[c].noff < 1 THEN "pop_off"
    ELSE None

pop_off(cs, c) ==
    LET dec == [cs EXCEPT ![c].noff = @ - 1]
    IN  IF dec[c].noff = 0 /\ dec[c].intena THEN intr_on(dec, c) ELSE dec

\* Spinlock::holding on hart c
holding(ls, l, c) == ls[l].locked = 1 /\ ls[l].cpu = {c}

\* The test-and-set loop of acquire leaves when the swap returned 0.
SpinExit_always(old) == TRUE

SpinExit(old) == old = 0

\* ------------------------------------------------ bare threads on harts
HIdle(c) == hpc[c] = "idle" /\ hpanic[c] = None

\* A thread with no lock held turns interrupts on or off (riscv.rs).
HIntrOn(c) ==
    /\ HIdle(c) /\ cpus[c].noff = 0
    /\ cpus' = intr_on(cpus, c)
    /\ UNCHANGED <<locks, hartVars, otherL>>

HIntrOff(c) ==
    /\ HIdle(c) /\ cpus[c].noff = 0
    /\ cpus' = intr_off(cpus, c)
    /\ UNCHANGED <<locks, hartVars, otherL>>

\* push_off() called directly.
HPushOff(c) ==
    /\ HIdle(c) /\ cpus[c].noff < MaxNoff
    /\ cpus' = push_off(cpus, c)
    /\ rawpush' = [rawpush EXCEPT ![c] = @ + 1]
    /\ before' = [before EXCEPT ![c] = IF cpus[c].noff = 0 THEN cpus[c].sie ELSE @]
    /\ UNCHANGED <<hcall, locks, hpc, harg, held, callHeld, hpanic, otherL>>

\* pop_off() matching an earlier direct push_off().
HPopOff(c) ==
    /\ HIdle(c) /\ rawpush[c] > 0
    /\ IF pop_off_panic(cpus, c) # None
       THEN /\ hpanic' = [hpanic EXCEPT ![c] = pop_off_panic(cpus, c)]
            /\ UNCHANGED <<cpus, rawpush>>
       ELSE /\ cpus' = pop_off(cpus, c)
            /\ rawpush' = [rawpush EXCEPT ![c] = @ - 1]
            /\ UNCHANGED hpanic
    /\ UNCHANGED <<hcall, locks, hpc, harg, held, callHeld, before, otherL>>

\* Spinlock::acquire up to the spin loop: push_off, then the holding check.
HAcquireCall(c, l) ==
    /\ HIdle(c) /\ cpus[c].noff < MaxNoff
    /\ cpus' = push_off(cpus, c)
    /\ before' = [before EXCEPT ![c] = IF cpus[c].noff = 0 THEN cpus[c].sie ELSE @]
    /\ harg' = [harg EXCEPT ![c] = l]
    /\ hcall' = [hcall EXCEPT ![c] = "acquire"]
    /\ callHeld' = [callHeld EXCEPT ![c] = l \in held[c]]
    /\ IF holding(locks, l, c)
       THEN /\ hpanic' = [hpanic EXCEPT ![c] = "acquire"]
            /\ UNCHANGED hpc
       ELSE /\ hpc' = [hpc EXCEPT ![c] = "acq_spin"]
            /\ UNCHANGED hpanic
    /\ UNCHANGED <<locks, held, rawpush, otherL>>

\* One successful amoswap of the spin loop.
HAcquireSwap(c) ==
    /\ hpc[c] = "acq_spin" /\ hpanic[c] = None
    /\ SpinExit(locks[harg[c]].locked)
    /\ locks' = [locks EXCEPT ![harg[c]].locked = 1]
    /\ hpc' = [hpc EXCEPT ![c] = "acq_setcpu"]
    /\ UNCHANGED <<hcall, cpus, harg, held, callHeld, rawpush, before, hpanic, otherL>>

\* self.cpu = Some(mycpu()); acquire returns.
HAcquireRet(c) ==
    /\ hpc[c] = "acq_setcpu" /\ hpanic[c] = None
    /\ locks' = [locks EXCEPT ![harg[c]].cpu = {c}]
    /\ held' = [held EXCEPT ![c] = @ \cup {harg[c]}]
    /\ hpc' = [hpc EXCEPT ![c] = "idle"]
    /\ UNCHANGED <<hcall, cpus, harg, callHeld, rawpush, before, hpanic, otherL>>

\* Spinlock::release: the holding check, then self.cpu = None.
HReleaseCall(c, l) ==
    /\ HIdle(c)
    /\ harg' = [harg EXCEPT ![c] = l]
    /\ hcall' = [hcall EXCEPT ![c] = "release"]
    /\ callHeld' = [callHeld EXCEPT ![c] = l \in held[c]]
    /\ IF ~holding(locks, l, c)
       THEN /\ hpanic' = [hpanic EXCEPT ![c] = "release"]
            /\ UNCHANGED <<hpc, locks, held>>
       ELSE /\ locks' = [locks EXCEPT ![l].cpu = {}]
            /\ held' = [held EXCEPT ![c] = @ \ {l}]
            /\ hpc' = [hpc EXCEPT ![c] = "rel_unlock"]
            /\ UNCHANGED hpanic
    /\ UNCHANGED <<cpus, rawpush, before, otherL>>

\* __sync_lock_release(&self.locked)
HReleaseUnlock(c) ==
    /\ hpc[c] = "rel_unlock" /\ hpanic[c] = None
    /\ locks' = [locks EXCEPT ![harg[c]].locked = 0]
    /\ hpc' = [hpc EXCEPT ![c] = "rel_pop"]
    /\ UNCHANGED <<hcall, cpus, harg, held, callHeld, rawpush, before, hpanic, otherL>>

\* pop_off() at the end of release.
HReleasePop(c) ==
    /\ hpc[c] = "rel_pop" /\ hpanic[c] = None
    /\ IF pop_off_panic(cpus, c) # None
       THEN /\ hpanic' = [hpanic EXCEPT ![c] = pop_off_panic(cpus, c)]
            /\ UNCHANGED <<cpus, hpc>>
       ELSE /\ cpus' = pop_off(cpus, c)
            /\ hpc' = [hpc EXCEPT ![c] = "idle"]
            /\ UNCHANGED hpanic
    /\ UNCHANGED <<hcall, locks, harg, held, callHeld, rawpush, before, otherL>>

\* ======================================================== proc.rs, sleeplock.rs
\* The process table.  A enqueues work under LK and wakes the queue's
\* channel; B dequeues and sleeps on the channel while the queue is empty.
\* Every process may also take and release the sleep lock, and yield.
PROCS == <<"A", "B">>
Procs == {PROCS[i] : i \in 1 .. Len(PROCS)}
MaxWork == 1

PLock(p) == <<"proc", p>>
WAIT_LOCK == <<"wait_lock", 0>>
AllLocks == FreeLocks \cup {WAIT_LOCK} \cup {PLock(p) : p \in Procs}

\* Channels are addresses: of the queue, of the Sleeplock object, or of a
\* slot on p's kernel stack.
NoChan == <<"none", "">>
QueueChan == <<"static", "queue">>
SleeplockAddr == <<"static", "sleeplock">>
StackSlot(p) == <<"stack", p>>

NoLock == <<"none", 0>>

\* The hart process p executes on (cpus[c].proc = Some(p), process context).
OnCpu(p, c) == cpus[c].proc = {p} /\ sch[c].pc = "away"
Runs(p) == /\ \E c \in Cpus : OnCpu(p, c)
           /\ th[p].panic = None /\ th[p].spin = NoLock
CpuOf(p) == CHOOSE c \in Cpus : OnCpu(p, c)

\* myproc() on the hart of p's thread
myproc(p) == p

\* Spinlock::acquire by p's thread up to the spin loop, continuing at `to`.
AcqCall(p, l, to) ==
    LET c == CpuOf(p) IN
    /\ cpus' = push_off(cpus, c)
    /\ IF holding(locks, l, c)
       THEN th' = [th EXCEPT ![p].panic = "acquire"]
       ELSE th' = [th EXCEPT ![p].spin = l, ![p].pc = to,
                             ![p].before = IF cpus[c].noff = 0 THEN {cpus[c].sie} ELSE @]

\* The swap of the spin loop succeeds; acquire records the hart and returns.
PSpin(p) ==
    /\ \E c \in Cpus : OnCpu(p, c)
    /\ th[p].panic = None /\ th[p].spin # NoLock
    /\ SpinExit(locks[th[p].spin].locked)
    /\ locks' = [locks EXCEPT ![th[p].spin] = [locked |-> 1, cpu |-> {CpuOf(p)}]]
    /\ th' = [th EXCEPT ![p].spin = NoLock]
    /\ UNCHANGED <<cpus, procs, sch, work, slp, otherP>>

\* Spinlock::release on hart c: the panic it raises, or None.
release_panic(cs, ls, l, c) ==
    IF ~holding(ls, l, c) THEN "release" ELSE pop_off_panic(cs, c)

release_locks(ls, l) == [ls EXCEPT ![l] = [locked |-> 0, cpu |-> {}]]

\* Release of l by p's thread, continuing at `to`; thx is th with the
\* step's other updates already applied.
Rel(p, l, to, thx) ==
    LET c == CpuOf(p)
        msg == release_panic(cpus, locks, l, c) IN
    IF msg # None
    THEN /\ th' = [th EXCEPT ![p].panic = msg]
         /\ UNCHANGED <<cpus, locks>>
    ELSE /\ th' = [thx EXCEPT ![p].pc = to]
         /\ locks' = release_locks(locks, l)
         /\ cpus' = pop_off(cpus, c)

InitThread == [pc |-> "forkret", spin |-> NoLock, panic |-> None,
               before |-> {}, enq |-> FALSE, schan |-> NoChan, slock |-> NoLock,
               sleepret |-> "idle", sret |-> "idle", intena |-> FALSE,
               wchan |-> NoChan, widx |-> 1, wret |-> "idle"]

\* ---- forkret: a process's first scheduling releases the p.lock the
\* scheduler took.
PForkret(p) ==
    /\ Runs(p) /\ th[p].pc = "forkret"
    /\ Rel(p, PLock(p), "idle", th)
    /\ UNCHANGED <<procs, sch, work, slp, otherP>>

\* ---- a thread with no lock held enables / disables interrupts
PIntrOn(p) ==
    /\ Runs(p) /\ th[p].pc = "idle" /\ cpus[CpuOf(p)].noff = 0
    /\ cpus' = intr_on(cpus, CpuOf(p))
    /\ UNCHANGED <<locks, procVars, otherP>>

PIntrOff(p) ==
    /\ Runs(p) /\ th[p].pc = "idle" /\ cpus[CpuOf(p)].noff = 0
    /\ cpus' = intr_off(cpus, CpuOf(p))
    /\ UNCHANGED <<locks, procVars, otherP>>

\* ---- sched(): the panic it raises, or None (ps is PROCS as the caller
\* left it)
sched_panic_no_locks(p, c, ps) ==
    IF ~holding(locks, PLock(p), c) THEN "sched p->lock"
    ELSE IF ps[p].state = "RUNNING" THEN "sched running"
    ELSE IF intr_get(cpus, c) THEN "sched interruptible"
    ELSE None

sched_panic(p, c, ps) ==
    IF ~holding(locks, PLock(p), c) THEN "sched p->lock"
    ELSE IF cpus[c].noff # 1 THEN "sched locks"
    ELSE IF ps[p].state = "RUNNING" THEN "sched running"
    ELSE IF intr_get(cpus, c) THEN "sched interruptible"
    ELSE None

\* sched() up to swtch: the checks, `let intena = mycpu().intena`, then
\* the hart continues in its scheduler.  ps is procs after the caller's
\* state change, `to` where the caller continues after sched returns.
SchedSwtch(p, ps, to) ==
    LET c == CpuOf(p) IN
    /\ procs' = ps
    /\ IF sched_panic(p, c, ps) # None
       THEN /\ th' = [th EXCEPT ![p].panic = sched_panic(p, c, ps)]
            /\ UNCHANGED sch
       ELSE /\ th' = [th EXCEPT ![p].pc = "sched_resume", ![p].sret = to,
                                ![p].intena = cpus[c].intena]
            /\ sch' = [sch EXCEPT ![c].pc = "back"]

\* The value sched() stores into mycpu().intena after swtch returns.
sched_restore_keep(p, c) == cpus[c].intena

sched_restore(p, c) == th[p].intena

\* sched() after swtch returned: mycpu().intena = intena.
SchedResume(p) ==
    /\ Runs(p) /\ th[p].pc = "sched_resume"
    /\ cpus' = [cpus EXCEPT ![CpuOf(p)].intena = sched_restore(p, CpuOf(p))]
    /\ th' = [th EXCEPT ![p].pc = th[p].sret]
    /\ UNCHANGED <<locks, procs, sch, work, slp, otherP>>

\* ---- proc_yield
YieldCall(p) ==
    /\ Runs(p) /\ th[p].pc = "idle"
    /\ AcqCall(p, PLock(p), "yield_sched")
    /\ UNCHANGED <<locks, procs, sch, work, slp, otherP>>

YieldSched(p) ==
    /\ Runs(p) /\ th[p].pc = "yield_sched"
    /\ SchedSwtch(p, [procs EXCEPT ![p].state = "RUNNABLE"], "yield_rel")
    /\ UNCHANGED <<cpus, locks, work, slp, otherP>>

YieldRel(p) ==
    /\ Runs(p) /\ th[p].pc = "yield_rel"
    /\ Rel(p, PLock(p), "idle", th)
    /\ UNCHANGED <<procs, sch, work, slp, otherP>>

\* ---- sleep(chan, lk)
\* The call and p.lock.acquire().  (enq records whether the producer has
\* enqueued since this call.)
SleepCall(p, chan, lk, ret) ==
    LET c == CpuOf(p) IN
    /\ cpus' = push_off(cpus, c)
    /\ IF holding(locks, PLock(p), c)
       THEN th' = [th EXCEPT ![p].panic = "acquire"]
       ELSE th' = [th EXCEPT ![p].spin = PLock(p), ![p].pc = "sleep_rel",
                             ![p].schan = chan, ![p].slock = lk,
                             ![p].sleepret = ret, ![p].enq = FALSE]

\* lk.release()
SleepRel(p) ==
    /\ Runs(p) /\ th[p].pc = "sleep_rel"
    /\ Rel(p, th[p].slock, "sleep_sched", th)
    /\ UNCHANGED <<procs, sch, work, slp, otherP>>

\* p.chan = chan; p.state = SLEEPING; sched()
SleepSched(p) ==
    /\ Runs(p) /\ th[p].pc = "sleep_sched"
    /\ SchedSwtch(p, [procs EXCEPT ![p].chan = th[p].schan,
                                   ![p].state = "SLEEPING"], "sleep_tidy")
    /\ UNCHANGED <<cpus, locks, work, slp, otherP>>

\* p.chan = None; p.lock.release()
SleepTidy(p) ==
    /\ Runs(p) /\ th[p].pc = "sleep_tidy"
    /\ Rel(p, PLock(p), "sleep_reacq", th)
    /\ procs' = IF release_panic(cpus, locks, PLock(p), CpuOf(p)) # None
                THEN procs ELSE [procs EXCEPT ![p].chan = NoChan]
    /\ UNCHANGED <<sch, work, slp, otherP>>

\* lk.acquire(); sleep returns to its caller
SleepReacq(p) ==
    /\ Runs(p) /\ th[p].pc = "sleep_reacq"
    /\ AcqCall(p, th[p].slock, th[p].sleepret)
    /\ UNCHANGED <<locks, procs, sch, work, slp, otherP>>

\* ---- wakeup(chan): scan PROCS
wakeup_hit_wrongchan(ps, q, chan) ==
    ps[q].state = "SLEEPING" /\ ps[q].chan = <<"stack", q>>

wakeup_hit(ps, q, chan) == ps[q].state = "SLEEPING" /\ ps[q].chan = chan

\* Loop head: past the table, or the caller itself, or p.lock.acquire().
WakeNext(p) ==
    /\ Runs(p) /\ th[p].pc = "wakeup"
    /\ IF th[p].widx > Len(PROCS)
       THEN /\ th' = [th EXCEPT ![p].pc = th[p].wret]
            /\ UNCHANGED cpus
       ELSE IF PROCS[th[p].widx] = myproc(p)
       THEN /\ th' = [th EXCEPT ![p].widx = @ + 1]
            /\ UNCHANGED cpus
       ELSE AcqCall(p, PLock(PROCS[th[p].widx]), "wake_chk")
    /\ UNCHANGED <<locks, procs, sch, work, slp, otherP>>

\* Loop body under p.lock: make a matching sleeper RUNNABLE; release.
WakeChk(p) ==
    LET q == PROCS[th[p].widx] IN
    /\ Runs(p) /\ th[p].pc = "wake_chk"
    /\ Rel(p, PLock(q), "wakeup", [th EXCEPT ![p].widx = @ + 1])
    /\ procs' = IF release_panic(cpus, locks, PLock(q), CpuOf(p)) = None
                   /\ wakeup_hit(procs, q, th[p].wchan)
                THEN [procs EXCEPT ![q].state = "RUNNABLE"] ELSE procs
    /\ UNCHANGED <<sch, work, slp, otherP>>

\* ---- the producer: lk.acquire(); enqueue; lk.release(); wakeup(chan)
Producers == {"A"}
Consumers == {"B"}

ProdStart(p) ==
    /\ p \in Producers /\ Runs(p) /\ th[p].pc = "idle" /\ work < MaxWork
    /\ AcqCall(p, LK, "prod_enq")
    /\ UNCHANGED <<locks, procs, sch, work, slp, otherP>>

ProdEnq(p) ==
    /\ Runs(p) /\ th[p].pc = "prod_enq"
    /\ Rel(p, LK, "wakeup",
           [q \in Procs |->
               IF q = p THEN [th[q] EXCEPT !.wchan = QueueChan, !.widx = 1,
                                           !.wret = "idle"]
               ELSE [th[q] EXCEPT !.enq = TRUE]])
    /\ work' = IF release_panic(cpus, locks, LK, CpuOf(p)) = None
               THEN work + 1 ELSE work
    /\ UNCHANGED <<procs, sch, slp, otherP>>

\* ---- the consumer: lk.acquire(); while empty { sleep(chan, lk) };
\* dequeue; lk.release()
ConsStart(p) ==
    /\ p \in Consumers /\ Runs(p) /\ th[p].pc = "idle"
    /\ AcqCall(p, LK, "cons_chk")
    /\ UNCHANGED <<locks, procs, sch, work, slp, otherP>>

ConsChk(p) ==
    /\ Runs(p) /\ th[p].pc = "cons_chk"
    /\ IF work = 0
       THEN /\ SleepCall(p, QueueChan, LK, "cons_back")
            /\ UNCHANGED <<locks, work>>
       ELSE /\ Rel(p, LK, "idle", th)
            /\ work' = IF release_panic(cpus, locks, LK, CpuOf(p)) = None
                       THEN work - 1 ELSE work
    /\ UNCHANGED <<procs, sch, slp, otherP>>

\* sleep has returned to the consumer's loop
ConsBack(p) ==
    /\ Runs(p) /\ th[p].pc = "cons_back"
    /\ th' = [th EXCEPT ![p].pc = "cons_chk"]
    /\ UNCHANGED <<cpus, locks, procs, sch, work, slp, otherP>>

\* ---- Sleeplock::acquire_sleep
\* The channel acquire_sleep sleeps on: `self as *const Sleeplock`.
acquire_chan(p) == SleeplockAddr

\* The channel release_sleep wakes: `wakeup(&self)` with self: &mut Self
\* takes the address of the local `self`, a slot of the caller's stack.
release_chan(p) == StackSlot(p)

AsStart(p) ==
    /\ Runs(p) /\ th[p].pc = "idle" /\ slp.pid # p
    /\ AcqCall(p, SLK, "as_chk")
    /\ UNCHANGED <<locks, procs, sch, work, slp, otherP>>

AsChk(p) ==
    /\ Runs(p) /\ th[p].pc = "as_chk"
    /\ IF slp.locked # 0
       THEN /\ SleepCall(p, acquire_chan(p), SLK, "as_chk")
            /\ UNCHANGED <<locks, slp>>
       ELSE /\ Rel(p, SLK, "idle", th)
            /\ slp' = IF release_panic(cpus, locks, SLK, CpuOf(p)) = None
                      THEN [locked |-> 1, pid |-> p] ELSE slp
    /\ UNCHANGED <<procs, sch, work, otherP>>

\* ---- Sleeplock::release_sleep
RsStart(p) ==
    /\ Runs(p) /\ th[p].pc = "idle" /\ slp.locked = 1 /\ slp.pid = p
    /\ AcqCall(p, SLK, "rs_clear")
    /\ UNCHANGED <<locks, procs, sch, work, slp, otherP>>

RsClear(p) ==
    /\ Runs(p) /\ th[p].pc = "rs_clear"
    /\ slp' = [locked |-> 0, pid |-> "0"]
    /\ th' = [th EXCEPT ![p].pc = "wakeup", ![p].wchan = release_chan(p),
                        ![p].widx = 1, ![p].wret = "rs_rel"]
    /\ UNCHANGED <<cpus, locks, procs, sch, work, otherP>>

RsRel(p) ==
    /\ Runs(p) /\ th[p].pc = "rs_rel"
    /\ Rel(p, SLK, "idle", th)
    /\ UNCHANGED <<procs, sch, work, slp, otherP>>

\* ---- scheduler() on hart c
SchedAdvance(c) ==
    IF sch[c].idx = Len(PROCS) THEN [pc |-> "top", idx |-> 1]
    ELSE [pc |-> "scan", idx |-> sch[c].idx + 1]

\* intr_on() at the head of the outer loop
SchedTop(c) ==
    /\ sch[c].pc = "top"
    /\ cpus' = intr_on(cpus, c)
    /\ sch' = [sch EXCEPT ![c] = [pc |-> "scan", idx |-> 1]]
    /\ UNCHANGED <<locks, procs, th, work, slp, otherP>>

\* p.lock.acquire() up to the spin loop
SchedScan(c) ==
    /\ sch[c].pc = "scan"
    /\ cpus' = push_off(cpus, c)
    /\ sch' = [sch EXCEPT ![c].pc =
                 IF holding(locks, PLock(PROCS[sch[c].idx]), c)
                 THEN "panic" ELSE "spin"]
    /\ UNCHANGED <<locks, procs, th, work, slp, otherP>>

\* `if p.state == RUNNABLE` under p.lock
sched_runnable_or_sleeping(ps, p) == ps[p].state \in {"RUNNABLE", "SLEEPING"}

sched_runnable(ps, p) == ps[p].state = "RUNNABLE"

\* The lock is taken.  A RUNNABLE process is made RUNNING and switched to;
\* otherwise p.lock is released and the scan goes on.
SchedSpin(c) ==
    LET p == PROCS[sch[c].idx] IN
    /\ sch[c].pc = "spin"
    /\ SpinExit(locks[PLock(p)].locked)
    /\ IF sched_runnable(procs, p)
       THEN /\ locks' = [locks EXCEPT ![PLock(p)] = [locked |-> 1, cpu |-> {c}]]
            /\ procs' = [procs EXCEPT ![p].state = "RUNNING"]
            /\ cpus' = [cpus EXCEPT ![c].proc = {p}]
            /\ sch' = [sch EXCEPT ![c].pc = "away"]
       ELSE /\ cpus' = pop_off(cpus, c)
            /\ sch' = [sch EXCEPT ![c] = SchedAdvance(c)]
            /\ UNCHANGED <<locks, procs>>
    /\ UNCHANGED <<th, work, slp, otherP>>

\* swtch returned to the scheduler: c.proc = None; p.lock.release()
SchedBack(c) ==
    LET p == PROCS[sch[c].idx]
        cs == [cpus EXCEPT ![c].proc = {}]
        msg == release_panic(cs, locks, PLock(p), c) IN
    /\ sch[c].pc = "back"
    /\ IF msg # None
       THEN /\ sch' = [sch EXCEPT ![c].pc = "panic"]
            /\ cpus' = cs
            /\ UNCHANGED locks
       ELSE /\ locks' = release_locks(locks, PLock(p))
            /\ cpus' = pop_off(cs, c)
            /\ sch' = [sch EXCEPT ![c] = SchedAdvance(c)]
    /\ UNCHANGED <<procs, th, work, slp, otherP>>

\* ====================================================== buf.rs, bio.rs
NBUF == 3
MaxPin == 1
\* Addresses: DUMMY_HEAD is HEAD, BCACHE.buf[i] is i.  An
\* Option<NonNull<Buf>> is {} for None and {a} for Some(a).
HEAD == 0
Bufs == 1 .. NBUF
ROOTDEV == 1

unwrap(o) == CHOOSE x \in o : TRUE

\* Block contents.  A log header block carries n and block[]; any other
\* block carries a value v.
MAXOPBLOCKS == 10
LOGSIZE == MAXOPBLOCKS * 3
NoBlocks == [i \in 0 .. (LOGSIZE - 1) |-> 0]
Hdr(n, blocks) == [n |-> n, block |-> blocks, v |-> "hdr"]
Data(v) == [n |-> 0, block |-> NoBlocks, v |-> v]

\* virtio_disk_rw on the disk d: a block never written reads as zeroes.
disk_read(d, blockno) == IF blockno \in DOMAIN d THEN d[blockno] ELSE Data("0")
disk_write(d, blockno, data) ==
    [x \in DOMAIN d \cup {blockno} |-> IF x = blockno THEN data ELSE d[x]]

NewSleeplock == [locked |-> 0, pid |-> "0"]

NewBuf == [valid |-> FALSE, dev |-> 0, blockno |-> 0, lock |-> NewSleeplock,
           refcnt |-> 0, prev |-> {}, next |-> {}, data |-> Data("0")]

\* binit: the loop over BCACHE.buf.  `local` is the copy of the sentinel
\* that `let mut head_ptr = *BCACHE.head.as_ptr()` makes; the loop reads
\* and writes head_ptr.next in the copy, and writes through the pointers
\* it holds into m.
RECURSIVE binit_loop(_, _, _)
binit_loop(m, local, i) ==
    IF i > NBUF THEN m
    ELSE LET m1 == [m EXCEPT ![i].next = local.next, ![i].prev = {HEAD}]
             head_next == unwrap(local.next)
             m2 == [m1 EXCEPT ![head_next].prev = {i}]
         IN  binit_loop(m2, [local EXCEPT !.next = {i}], i + 1)

binit(m) ==
    binit_loop(m, [m[HEAD] EXCEPT !.prev = {HEAD}, !.next = {HEAD}], 1)

\* Sleeplock::holding_sleep by process me
holding_sleep(lk, me) == lk.locked # 0 /\ lk.pid = me

\* bget(dev, blockno) by process me, from BCACHE.lock.acquire() on.
\* Every write of bget goes to `b`, a copy of the buffer (`let mut b =
\* *b_ptr`), so m is left as it is.  The result is how bget ends: "ret"
\* with the address it returns, "panic" with the message, "hang" when a
\* loop never leaves (its cursor is recomputed from head on every turn), or
\* "sleep" when acquire_sleep on the copy finds it locked.  held tells
\* whether BCACHE.lock is still held then.
BgetEnd(kind, buf, msg, locked) ==
    [kind |-> kind, buf |-> buf, msg |-> msg, held |-> locked]

bget_recycle(m, dev, blockno, me) ==
    LET head == m[HEAD] IN
    IF head.prev = {}
    THEN BgetEnd("panic", HEAD, "unwrap on None", TRUE)
    ELSE LET b_ptr == unwrap(head.prev) IN
         IF b_ptr = HEAD
         THEN BgetEnd("panic", HEAD, "bget: no buffers", TRUE)
         ELSE LET b == m[b_ptr] IN
              IF b.refcnt = 0
              THEN IF b.lock.locked # 0
                   THEN BgetEnd("sleep", b_ptr, None, FALSE)
                   ELSE BgetEnd("ret", unwrap(head.prev), None, FALSE)
              ELSE IF b.prev = {}
                   THEN BgetEnd("panic", HEAD, "unwrap on None", TRUE)
                   ELSE BgetEnd("hang", HEAD, None, TRUE)

bget(m, dev, blockno, me) ==
    LET head == m[HEAD] IN
    IF head.next = {}
    THEN BgetEnd("panic", HEAD, "unwrap on None", TRUE)
    ELSE LET b_ptr == unwrap(head.next) IN
         IF b_ptr = HEAD
         THEN bget_recycle(m, dev, blockno, me)
         ELSE LET b == m[b_ptr] IN
              IF b.dev = dev /\ b.blockno = blockno
              THEN IF b.lock.locked # 0
                   THEN BgetEnd("sleep", b_ptr, None, FALSE)
                   ELSE BgetEnd("ret", unwrap(head.next), None, FALSE)
              ELSE IF b.next = {}
                   THEN BgetEnd("panic", HEAD, "unwrap on None", TRUE)
                   ELSE BgetEnd("hang", HEAD, None, TRUE)

\* The result of a cache call on io = [m, d] (cache memory and disk).
IoEnd(m, d, end) == [m |-> m, d |-> d, end |-> end]

\* bread: bget, then the disk read into the returned (shared) buffer when
\* it is not valid.  virtio_disk_rw addresses the disk by b.blockno.
bread(io, dev, blockno, me) ==
    LET e == bget(io.m, dev, blockno, me) IN
    IF e.kind # "ret" THEN IoEnd(io.m, io.d, e)
    ELSE LET b == io.m[e.buf] IN
         IF ~b.valid
         THEN IoEnd([io.m EXCEPT ![e.buf].data = disk_read(io.d, b.blockno),
                                 ![e.buf].valid = TRUE], io.d, e)
         ELSE IoEnd(io.m, io.d, e)

\* bwrite(b)
bwrite(io, b, me) ==
    IF ~holding_sleep(io.m[b].lock, me)
    THEN IoEnd(io.m, io.d, BgetEnd("panic", b, "bwrite", FALSE))
    ELSE IoEnd(io.m, disk_write(io.d, io.m[b].blockno, io.m[b].data),
               BgetEnd("ret", b, None, FALSE))

\* brelse(b): the relink under BCACHE.lock once refcnt is 0.  The stores
\* through b.next / b.prev / head.next reach m; `let mut head =
\* *BCACHE.head.as_ptr()` is a copy, so `head.next = Some(b)` is lost.
brelse_relink(m, b) ==
    LET m1 == [m EXCEPT ![unwrap(m[b].next)].prev = m[b].prev]
        m2 == [m1 EXCEPT ![unwrap(m1[b].prev)].next = m1[b].next]
        head == m2[HEAD]
        m3 == [m2 EXCEPT ![b].next = head.next, ![b].prev = {HEAD}]
    IN  [m3 EXCEPT ![unwrap(head.next)].prev = {b}]

brelse(io, b, me) ==
    IF ~holding_sleep(io.m[b].lock, me)
    THEN IoEnd(io.m, io.d, BgetEnd("panic", b, "brelse", FALSE))
    ELSE IF io.m[b].refcnt = 0
    THEN IoEnd([io.m EXCEPT ![b].lock = NewSleeplock], io.d,
               BgetEnd("panic", b, "attempt to subtract with overflow", TRUE))
    ELSE LET m1 == [io.m EXCEPT ![b].lock = NewSleeplock,
                                ![b].refcnt = @ - 1] IN
         IF m1[b].refcnt # 0
         THEN IoEnd(m1, io.d, BgetEnd("ret", b, None, FALSE))
         ELSE IF m1[b].next = {} \/ m1[b].prev = {} \/ m1[HEAD].next = {}
         THEN IoEnd(m1, io.d, BgetEnd("panic", b, "unwrap on None", TRUE))
         ELSE IoEnd(brelse_relink(m1, b), io.d, BgetEnd("ret", b, None, FALSE))

\* bpin / bunpin.  refcnt stays far below 2^32 (Bpin is capped by MaxPin),
\* and bunpin is called on pinned buffers only.
bpin(m, b) == [m EXCEPT ![b].refcnt = @ + 1]
bunpin(m, b) == [m EXCEPT ![b].refcnt = @ - 1]

\* ---- callers of the buffer cache
BlockNos == {100, 101}
BAlive(p) == booted /\ bt[p].end \in {"idle", "ret"} /\ bclock = {}

\* How a call that ended with e leaves BCACHE.lock and the caller.
BtAfter(p, call, req, e) ==
    [call |-> call, req |-> req, end |-> e.kind, msg |-> e.msg, buf |-> e.buf]

Binit ==
    /\ ~booted
    /\ mem' = binit(mem)
    /\ booted' = TRUE
    /\ UNCHANGED <<bclock, disk, bt, otherB>>

Bread(p, blockno) ==
    /\ BAlive(p)
    /\ \E r \in {bread([m |-> mem, d |-> disk], ROOTDEV, blockno, p)} :
       /\ mem' = r.m /\ disk' = r.d
       /\ bclock' = IF r.end.held THEN {p} ELSE {}
       /\ bt' = [bt EXCEPT ![p] = BtAfter(p, "bread", blockno, r.end)]
       /\ UNCHANGED <<booted, otherB>>

Bwrite(p, b) ==
    /\ BAlive(p)
    /\ \E r \in {bwrite([m |-> mem, d |-> disk], b, p)} :
       /\ mem' = r.m /\ disk' = r.d
       /\ bt' = [bt EXCEPT ![p] = BtAfter(p, "bwrite", b, r.end)]
       /\ UNCHANGED <<bclock, booted, otherB>>

Brelse(p, b) ==
    /\ BAlive(p)
    /\ \E r \in {brelse([m |-> mem, d |-> disk], b, p)} :
       /\ mem' = r.m /\ disk' = r.d
       /\ bclock' = IF r.end.held THEN {p} ELSE {}
       /\ bt' = [bt EXCEPT ![p] = BtAfter(p, "brelse", b, r.end)]
       /\ UNCHANGED <<booted, otherB>>

Bpin(p, b) ==
    /\ BAlive(p) /\ mem[b].refcnt < MaxPin
    /\ mem' = bpin(mem, b)
    /\ bt' = [bt EXCEPT ![p] = BtAfter(p, "bpin", b, BgetEnd("ret", b, None, FALSE))]
    /\ UNCHANGED <<bclock, booted, disk, otherB>>

Bunpin(p, b) ==
    /\ BAlive(p) /\ mem[b].refcnt > 0
    /\ mem' = bunpin(mem, b)
    /\ bt' = [bt EXCEPT ![p] = BtAfter(p, "bunpin", b, BgetEnd("ret", b, None, FALSE))]
    /\ UNCHANGED <<bclock, booted, disk, otherB>>

\* ================================================================ log.rs
MaxCrash == 1
NLOG == LOGSIZE
LOGSTART == 2
MaxDiskN == 1
LogSlots == (LOGSTART + 1) .. (LOGSTART + MaxDiskN)
Contents == {Data("X"), Data("Y")}

\* The disk images a boot can meet: a header with n = 0, or the header of a
\* transaction that was committed and not yet erased.
DiskImages ==
    { [b \in {LOGSTART} \cup LogSlots \cup BlockNos |->
          IF b = LOGSTART THEN h ELSE IF b \in LogSlots THEN slot ELSE home]
      : h \in {Hdr(0, NoBlocks)} \cup {Hdr(1, [NoBlocks EXCEPT ![0] = b]) : b \in BlockNos},
        slot \in Contents, home \in {Data("Y")} }

Values == {"X", "Y"}

\* static mut LOG; lock is the holder of LOG.lock, {} when free.
NewLog == [lock |-> {}, start |-> 0, size |-> 0, outstanding |-> 0,
           committing |-> 0, dev |-> 0, n |-> 0, block |-> NoBlocks]

\* The state a log routine runs on: cache memory m, disk d, LOG as L, and
\* how the last cache call ended.  A routine goes on only after "ret".
Ok == BgetEnd("ret", HEAD, None, FALSE)
Ret(S) == S.end.kind = "ret"
S_bread(S, dev, blockno, me) ==
    LET r == bread([m |-> S.m, d |-> S.d], dev, blockno, me) IN
    [S EXCEPT !.m = r.m, !.d = r.d, !.end = r.end]
S_bwrite(S, b, me) ==
    LET r == bwrite([m |-> S.m, d |-> S.d], b, me) IN
    [S EXCEPT !.m = r.m, !.d = r.d, !.end = r.end]
S_brelse(S, b, me) ==
    LET r == brelse([m |-> S.m, d |-> S.d], b, me) IN
    [S EXCEPT !.m = r.m, !.d = r.d, !.end = r.end]

\* Copy the first n entries of block[] from src into dst.
copy_blocks(dst, src, n) ==
    [i \in 0 .. (LOGSIZE - 1) |-> IF i < n THEN src[i] ELSE dst[i]]

\* read_head, after its bread
read_head_copy(S1, me) ==
    LET buf == S1.end.buf
        lh == S1.m[buf].data IN
    IF ~Ret(S1) THEN S1
    ELSE S_brelse([S1 EXCEPT !.L.n = lh.n,
                             !.L.block = copy_blocks(@, lh.block, lh.n)], buf, me)

read_head(S, me) ==
    read_head_copy(S_bread(S, S.L.dev, S.L.start, me), me)

\* One turn of install_trans's loop, bread by bread: S1 after the read of
\* the log block, S2 after the read of the destination, S4 after its
\* bwrite, S5 after brelse(lbuf).
install_trans_rel(S5, dbuf, me) ==
    IF ~Ret(S5) THEN S5 ELSE S_brelse(S5, dbuf, me)

install_trans_unpin(S4, lbuf, dbuf, recovering, me) ==
    IF ~Ret(S4) THEN S4
    ELSE install_trans_rel(
             S_brelse(IF recovering THEN S4
                      ELSE [S4 EXCEPT !.m = bunpin(S4.m, dbuf)], lbuf, me),
             dbuf, me)

install_trans_copy(S2, lbuf, recovering, me) ==
    LET dbuf == S2.end.buf IN
    IF ~Ret(S2) THEN S2
    ELSE install_trans_unpin(
             S_bwrite([S2 EXCEPT !.m[dbuf].data = S2.m[lbuf].data], dbuf, me),
             lbuf, dbuf, recovering, me)

install_trans_dst(S1, tail, recovering, me) ==
    IF ~Ret(S1) THEN S1
    ELSE install_trans_copy(S_bread(S1, S1.L.dev, S1.L.block[tail], me),
                            S1.end.buf, recovering, me)

install_trans(S, tail, recovering, me) ==
    install_trans_dst(S_bread(S, S.L.dev, S.L.start + tail + 1, me),
                      tail, recovering, me)

\* write_head, after its bread and after its bwrite
write_head_rel(S3, buf, me) ==
    IF ~Ret(S3) THEN S3 ELSE S_brelse(S3, buf, me)

write_head_set(S1, me) ==
    LET buf == S1.end.buf IN
    IF ~Ret(S1) THEN S1
    ELSE write_head_rel(
             S_bwrite([S1 EXCEPT !.m[buf].data.n = S1.L.n,
                                 !.m[buf].data.block = copy_blocks(@, S1.L.block, S1.L.n)],
                      buf, me),
             buf, me)

write_head(S, me) ==
    write_head_set(S_bread(S, S.L.dev, S.L.start, me), me)

\* One turn of write_log's loop: S1 after the read of the log block, S2
\* after the read of the cache block, S4 after bwrite(to), S5 after
\* brelse(from).
write_log_end(S5, to, me) ==
    IF ~Ret(S5) THEN S5 ELSE S_brelse(S5, to, me)

write_log_rel(S4, from, to, me) ==
    IF ~Ret(S4) THEN S4 ELSE write_log_end(S_brelse(S4, from, me), to, me)

write_log_copy(S2, to, me) ==
    LET from == S2.end.buf IN
    IF ~Ret(S2) THEN S2
    ELSE write_log_rel(
             S_bwrite([S2 EXCEPT !.m[to].data = S2.m[from].data], to, me),
             from, to, me)

write_log_from(S1, tail, me) ==
    IF ~Ret(S1) THEN S1
    ELSE write_log_copy(S_bread(S1, S1.L.dev, S1.L.block[tail], me), S1.end.buf, me)

write_log(S, tail, me) ==
    write_log_from(S_bread(S, S.L.dev, S.L.start + tail + 1, me), tail, me)

\* log_write's search: idx starts at 0 and is set only on a match.
RECURSIVE log_write_idx(_, _, _)
log_write_idx(L, blockno, i) ==
    IF i >= L.n THEN 0
    ELSE IF L.block[i] = blockno THEN i
    ELSE log_write_idx(L, blockno, i + 1)

\* log_write(b).  LOG.size - 1 is a u32 subtraction.
log_write(S, b, me) ==
    LET L == S.L
        locked == [S EXCEPT !.L.lock = {me}] IN
    IF L.size = 0
    THEN [locked EXCEPT !.end = BgetEnd("panic", b, "attempt to subtract with overflow", FALSE)]
    ELSE IF L.n >= LOGSIZE \/ L.n >= L.size - 1
    THEN [locked EXCEPT !.end = BgetEnd("panic", b, "too big a transaction", FALSE)]
    ELSE IF L.outstanding < 1
    THEN [locked EXCEPT !.end = BgetEnd("panic", b, "log_write outside of trans", FALSE)]
    ELSE LET idx == log_write_idx(L, S.m[b].blockno, 0)
             S1 == [S EXCEPT !.L.block[idx] = S.m[b].blockno]
         IN  IF idx = L.n
             THEN [S1 EXCEPT !.m = bpin(S1.m, b), !.L.n = L.n + 1]
             ELSE S1

\* The use of the log by a file-system call inside a transaction:
\*   bp = bread(...); modify bp->data[]; log_write(bp); brelse(bp)
fs_write_rel(S3, bp, me) ==
    IF ~Ret(S3) THEN S3 ELSE S_brelse(S3, bp, me)

fs_write_log(S1, v, me) ==
    LET bp == S1.end.buf IN
    IF ~Ret(S1) THEN S1
    ELSE fs_write_rel(log_write([S1 EXCEPT !.m[bp].data = Data(v)], bp, me), bp, me)

fs_write(S, blockno, v, me) ==
    fs_write_log(S_bread(S, S.L.dev, blockno, me), v, me)

\* wakeup(&LOG) by me
wakeup_log(t, me) ==
    [q \in DOMAIN t |-> IF q # me /\ t[q].pc = "sleep"
                        THEN [t[q] EXCEPT !.pc = "idle"] ELSE t[q]]

\* ---- callers of the log
LogIdle == [pc |-> "idle", call |-> "none", phase |-> "none", tail |-> 0,
            msg |-> None, req |-> 0, val |-> "0"]
LogNow == [m |-> mem, d |-> disk, L |-> LOG, end |-> Ok]
NoWrites == [b \in BlockNos |-> {}]
HomeOf(d) == [b \in BlockNos |-> d[b]]

\* What the header block on disk says is committed.
Pending(d) == d[LOGSTART].n > 0
Replay(d) ==
    [b \in BlockNos |->
        IF \E i \in 0 .. (d[LOGSTART].n - 1) : d[LOGSTART].block[i] = b
        THEN {d[LOGSTART + 1 + (CHOOSE i \in 0 .. (d[LOGSTART].n - 1) :
                                     d[LOGSTART].block[i] = b)].v}
        ELSE {}]

\* Leave a routine that ran on LogNow and ended in S: shared state, and the
\* caller's record when the routine panicked.
LogLeave(p, S) ==
    /\ mem' = S.m /\ disk' = S.d /\ LOG' = S.L
    /\ bclock' = IF S.end.held THEN {p} ELSE bclock
LogPanic(t, p, S) ==
    [t EXCEPT ![p].pc = "panic", ![p].msg = S.end.msg]
\* The bookkeeping after a routine: the header block on disk decides
\* whether a transaction is committed; base is the home content the
\* uncommitted transaction started from.
GhAfter(g, d) ==
    [g EXCEPT !.base = IF Pending(d) THEN @ ELSE IF Pending(disk) THEN HomeOf(d) ELSE @,
              !.fresh = FALSE]

\* initlog(dev, sb), with sb as mkfs writes it, then recover_from_log in
\* steps of one disk write each.
initlog_step(S, phase, tail, me) ==
    IF phase = "none"
    THEN LET S0 == [S EXCEPT !.L.start = LOGSTART, !.L.size = NLOG, !.L.dev = ROOTDEV]
             S1 == read_head(S0, me)
         IN  [S |-> S1, phase |-> IF S1.L.n > 0 THEN "install" ELSE "erase", tail |-> 0]
    ELSE IF phase = "install"
    THEN [S |-> install_trans(S, tail, TRUE, me),
          phase |-> IF tail + 1 < S.L.n THEN "install" ELSE "erase", tail |-> tail + 1]
    ELSE [S |-> write_head([S EXCEPT !.L.n = 0], me), phase |-> "done", tail |-> 0]

Initlog(p) ==
    /\ booted /\ bclock = {}
    /\ \/ lt[p].pc = "idle" /\ gh.boot = "off"
       \/ lt[p].pc = "recover"
    /\ \E r \in {initlog_step(LogNow, lt[p].phase, lt[p].tail, p)} :
       /\ LogLeave(p, r.S)
       /\ lt' = IF r.S.end.kind # "ret"
                THEN LogPanic([lt EXCEPT ![p].call = "initlog"], p, r.S)
                ELSE IF r.phase = "done" THEN [lt EXCEPT ![p] = [LogIdle EXCEPT !.call = "initlog"]]
                ELSE [lt EXCEPT ![p].pc = "recover", ![p].call = "initlog",
                                ![p].phase = r.phase, ![p].tail = r.tail]
       /\ gh' = [GhAfter(gh, r.S.d) EXCEPT
                    !.boot = IF r.S.end.kind = "ret" /\ r.phase = "done" THEN "up" ELSE "rec",
                    !.fresh = r.S.end.kind = "ret" /\ r.phase = "done"]
       /\ UNCHANGED <<booted, bt, otherG>>

BeginOp(p) ==
    /\ booted /\ lt[p].pc = "idle" /\ LOG.lock = {}
    /\ IF LOG.committing # 0
          \/ LOG.n + (LOG.outstanding + 1) * MAXOPBLOCKS > LOGSIZE
       THEN /\ lt' = [lt EXCEPT ![p].pc = "sleep", ![p].call = "begin_op"]
            /\ UNCHANGED LOG
       ELSE /\ LOG' = [LOG EXCEPT !.outstanding = @ + 1]
            /\ lt' = [lt EXCEPT ![p].pc = "op", ![p].call = "begin_op"]
    /\ UNCHANGED <<gh, bioVars, otherG>>

FsWrite(p, blockno, v) ==
    /\ booted /\ lt[p].pc = "op" /\ bclock = {} /\ LOG.lock = {}
    /\ \E S \in {fs_write(LogNow, blockno, v, p)} :
       /\ LogLeave(p, S)
       /\ lt' = IF S.end.kind # "ret"
                THEN LogPanic([lt EXCEPT ![p].call = "log_write", ![p].req = blockno,
                                         ![p].val = v], p, S)
                ELSE [lt EXCEPT ![p].call = "log_write", ![p].req = blockno, ![p].val = v]
       /\ gh' = [GhAfter(gh, S.d) EXCEPT
                    !.wrote = IF S.end.msg \in {"too big a transaction",
                                                "log_write outside of trans",
                                                "bget: no buffers"}
                              THEN @ ELSE [@ EXCEPT ![blockno] = {v}]]
       /\ UNCHANGED <<booted, bt, otherG>>

EndOp(p) ==
    LET L1 == [LOG EXCEPT !.outstanding = @ - 1] IN
    /\ booted /\ lt[p].pc = "op" /\ LOG.lock = {}
    /\ IF L1.committing # 0
       THEN /\ LOG' = [L1 EXCEPT !.lock = {p}]
            /\ lt' = [lt EXCEPT ![p].pc = "panic", ![p].call = "end_op",
                                ![p].msg = "log.committing"]
       ELSE IF L1.outstanding = 0
       THEN /\ LOG' = [L1 EXCEPT !.committing = 1]
            /\ lt' = [lt EXCEPT ![p].pc = "commit", ![p].call = "end_op",
                                ![p].phase = "start", ![p].tail = 0]
       ELSE /\ LOG' = L1
            /\ lt' = wakeup_log([lt EXCEPT ![p] = [LogIdle EXCEPT !.call = "end_op"]], p)
    /\ UNCHANGED <<gh, bioVars, otherG>>

\* commit() in steps of one disk write each, then the end of end_op.
commit_step(S, phase, tail, me) ==
    IF phase = "start"
    THEN [S |-> S, phase |-> IF S.L.n > 0 THEN "write_log" ELSE "fin", tail |-> 0]
    ELSE IF phase = "write_log"
    THEN [S |-> write_log(S, tail, me),
          phase |-> IF tail + 1 < S.L.n THEN "write_log" ELSE "write_head", tail |-> tail + 1]
    ELSE IF phase = "write_head"
    THEN [S |-> write_head(S, me), phase |-> "install", tail |-> 0]
    ELSE IF phase = "install"
    THEN [S |-> install_trans(S, tail, FALSE, me),
          phase |-> IF tail + 1 < S.L.n THEN "install" ELSE "erase", tail |-> tail + 1]
    ELSE IF phase = "erase"
    THEN [S |-> write_head([S EXCEPT !.L.n = 0], me), phase |-> "fin", tail |-> 0]
    ELSE [S |-> [S EXCEPT !.L.committing = 0], phase |-> "done", tail |-> 0]

Commit(p) ==
    /\ booted /\ lt[p].pc = "commit"
    /\ lt[p].phase \in {"start", "fin"} \/ bclock = {}
    /\ lt[p].phase = "fin" => LOG.lock = {}
    /\ \E r \in {commit_step(LogNow, lt[p].phase, lt[p].tail, p)} :
       /\ LogLeave(p, r.S)
       /\ lt' = IF r.S.end.kind # "ret" THEN LogPanic(lt, p, r.S)
                ELSE IF r.phase = "done"
                THEN wakeup_log([lt EXCEPT ![p] = [LogIdle EXCEPT !.call = "end_op"]], p)
                ELSE [lt EXCEPT ![p].phase = r.phase, ![p].tail = r.tail]
       /\ gh' = [GhAfter(gh, r.S.d) EXCEPT
                    !.wrote = IF r.phase = "done" THEN NoWrites ELSE @,
                    !.done = IF r.phase = "done"
                             THEN [b \in BlockNos |-> IF gh.wrote[b] # {} THEN gh.wrote[b] ELSE @[b]]
                             ELSE @]
       /\ UNCHANGED <<booted, bt, otherG>>

\* Power loss: memory is gone, the disk stays.
Crash ==
    /\ booted /\ gh.crashes < MaxCrash
    /\ mem' = [a \in {HEAD} \cup Bufs |-> NewBuf]
    /\ bclock' = {} /\ booted' = FALSE
    /\ bt' = [p \in Procs |-> [call |-> "none", req |-> 0, end |-> "idle",
                               msg |-> None, buf |-> HEAD]]
    /\ LOG' = NewLog
    /\ lt' = [p \in Procs |-> LogIdle]
    /\ gh' = [gh EXCEPT !.boot = "off", !.fresh = FALSE, !.crashes = @ + 1,
                        !.disk0 = disk, !.wrote = NoWrites, !.done = NoWrites,
                        !.base = HomeOf(disk)]
    /\ UNCHANGED <<disk, otherG>>

\* =============================================================== exec.rs
PGSIZE == 4096
MaxPh == 2
ELF_ENTRY == 4096
PGROUNDUP(sz) == ((sz + PGSIZE - 1) \div PGSIZE) * PGSIZE

\* vm.rs uvmalloc: the size it returns.  The loop runs a from 0 and its
\* first turn ends in `uvmdealloc(..); return 0` whether or not kalloc and
\* mappages succeeded, so only an empty range gets past it.
uvmalloc(oldsz, newsz) ==
    IF newsz < oldsz THEN oldsz
    ELSE IF newsz > 0 THEN 0
    ELSE newsz

\* The process image exec may replace, as the caller had it.
OldImage == [pid |-> 1, ofile |-> <<"f0">>, cwd |-> "cwd", pagetable |-> "old",
             sz |-> 2 * PGSIZE, epc |-> 0, sp |-> 2 * PGSIZE, a1 |-> 0,
             name |-> "old"]

\* An exec call not yet made: out is LOG.outstanding, ipref / iplock the
\* executable's inode (ref_cnt, sleep lock held by the caller), pts the
\* page tables allocated and not freed.
NewExec(out, ipref) ==
    [pc |-> "idle", ret |-> 0, msg |-> None, out |-> out, ipref |-> ipref,
     iplock |-> FALSE, pts |-> {"old"}, p |-> OldImage,
     pre |-> [p |-> OldImage, out |-> out, ipref |-> ipref],
     newpt |-> {}, sz |-> 0, sp |-> 0, stackbase |-> 0, i |-> 0, phnum |-> 0,
     entry |-> 0]

exec_panic(x, msg) == [x EXCEPT !.pc = "panic", !.msg = msg]
exec_ret(x, ret) == [x EXCEPT !.pc = "done", !.ret = ret]

\* log.rs end_op, as far as exec's transaction goes
exec_end_op(x) == [x EXCEPT !.out = @ - 1]

\* INode::iunlockput: iunlock panics unless the caller holds the lock.
exec_iunlockput(x) ==
    IF ~x.iplock \/ x.ipref < 1 THEN exec_panic(x, "iunlock")
    ELSE [x EXCEPT !.iplock = FALSE, !.ipref = @ - 1]

goto_bad_installs(x, page_table) ==
    IF page_table = {} THEN exec_panic(x, "unwrap on None")
    ELSE LET x1 == exec_iunlockput(x) IN
         IF x1.pc = "panic" THEN x1
         ELSE exec_ret(exec_end_op([x1 EXCEPT !.p.pagetable = "new", !.p.sz = x.sz]), -1)

\* goto_bad(page_table, sz, ip) with ip = Some(ip): page_table is
\* unwrapped when it is None, and left alone when it is Some.
goto_bad(x, page_table) ==
    IF page_table = {} THEN exec_panic(x, "unwrap on None")
    ELSE LET x1 == exec_iunlockput(x) IN
         IF x1.pc = "panic" THEN x1 ELSE exec_ret(exec_end_op(x1), -1)

\* The argument loop: argc stays 0 (`let argc = 0`), so argv[0] is pushed
\* again on every turn until sp falls below stackbase or copyout fails.
RECURSIVE exec_args(_, _, _, _)
exec_args(sp, stackbase, len, copyout_ok) ==
    LET sp1 == sp - (len + 1)
        sp2 == sp1 - (sp1 % 16) IN
    IF sp2 < stackbase THEN "bad"
    ELSE IF ~copyout_ok THEN "bad"
    ELSE exec_args(sp2, stackbase, len, copyout_ok)

\* What exec meets on its way, step by step: the results of namei and
\* readi (the file system's content), of proc_pagetable and copyout, the
\* program headers of the file, argv[0], and whether path fits p.name.
ExecInputs(pc) ==
    IF pc = "idle" THEN [found : BOOLEAN]
    ELSE IF pc = "elf" THEN [tot_ok : BOOLEAN, magic_ok : BOOLEAN, pt_ok : BOOLEAN,
                           phnum : 0 .. MaxPh]
    ELSE IF pc = "ph" THEN [ph : {"short", "notload", "memsz", "wrap", "unaligned",
                                  "load", "loadseg"},
                            pages : {0, 1}]
    ELSE IF pc = "args" THEN [argv0 : {0, 3, 40}, copyout_ok : BOOLEAN]
    ELSE IF pc = "commit" THEN [copyout_ok : BOOLEAN, name_fits : BOOLEAN]
    ELSE {}

\* exec(path, argv), a step at a time.
exec_step(x, in) ==
    IF x.pc = "idle"
    THEN \* begin_op; namei; ilock
         LET x1 == [x EXCEPT !.out = @ + 1] IN
         IF ~in.found THEN exec_ret(exec_end_op(x1), -1)
         ELSE [x1 EXCEPT !.ipref = @ + 1, !.iplock = TRUE, !.pc = "elf"]
    ELSE IF x.pc = "elf"
    THEN \* ELF header, proc_pagetable
         IF ~in.tot_ok THEN goto_bad(x, {})
         ELSE IF ~in.magic_ok THEN goto_bad(x, {})
         ELSE IF ~in.pt_ok THEN goto_bad(x, {})
         ELSE [x EXCEPT !.newpt = {"new"}, !.pts = @ \cup {"new"}, !.sz = 0,
                        !.i = 0, !.phnum = in.phnum, !.entry = ELF_ENTRY, !.pc = "ph"]
    ELSE IF x.pc = "ph" /\ x.i < x.phnum
    THEN \* one turn of the program header loop
         IF in.ph = "short" THEN goto_bad(x, x.newpt)
         ELSE IF in.ph = "notload" THEN [x EXCEPT !.i = @ + 1]
         ELSE IF in.ph \in {"memsz", "wrap", "unaligned"} THEN goto_bad(x, x.newpt)
         ELSE LET sz1 == uvmalloc(x.sz, x.sz + in.pages * PGSIZE) IN
              IF sz1 = 0 THEN goto_bad(x, x.newpt)
              ELSE IF in.ph = "loadseg" THEN goto_bad([x EXCEPT !.sz = sz1], x.newpt)
              ELSE [x EXCEPT !.sz = sz1, !.i = @ + 1]
    ELSE IF x.pc = "ph"
    THEN \* iunlockput; end_op; the stack pages
         LET x1 == exec_iunlockput(x)
             x2 == exec_end_op(x1)
             sz == PGROUNDUP(x2.sz)
             sz1 == uvmalloc(sz, sz + 2 * PGSIZE) IN
         IF x1.pc = "panic" THEN x1
         ELSE IF sz1 = 0 THEN goto_bad([x2 EXCEPT !.sz = sz], x2.newpt)
         ELSE [x2 EXCEPT !.sz = sz1, !.sp = sz1, !.stackbase = sz1 - PGSIZE,
                         !.pc = "args"]
    ELSE IF x.pc = "args"
    THEN \* push the argument strings
         IF in.argv0 = 0 THEN [x EXCEPT !.pc = "commit"]
         ELSE IF exec_args(x.sp, x.stackbase, in.argv0, in.copyout_ok) = "bad"
         THEN goto_bad(x, x.newpt)
         ELSE [x EXCEPT !.pc = "commit"]
    ELSE \* push argv[], tf.a1, p.name, commit to the user image
         LET sp1 == x.sp - 8
             sp == sp1 - (sp1 % 16) IN
         IF sp < x.stackbase THEN goto_bad(x, x.newpt)
         ELSE IF ~in.copyout_ok THEN goto_bad(x, x.newpt)
         ELSE IF ~in.name_fits
         THEN exec_panic([x EXCEPT !.p.a1 = sp], "copy_from_slice")
         ELSE exec_ret([x EXCEPT !.p.a1 = sp, !.p.name = "path",
                                 !.p.pagetable = "new", !.p.sz = x.sz,
                                 !.p.epc = x.entry, !.p.sp = sp,
                                 !.pts = @ \ {"old"}], 0)

ExecStep ==
    /\ xv.pc \notin {"done", "panic"}
    /\ \E in \in ExecInputs(xv.pc) : xv' = exec_step(xv, in)
    /\ UNCHANGED otherXv

\* sys_exec returns to the caller, who may call again.
ExecReturn ==
    /\ xv.pc = "done"
    /\ xv' = [NewExec(xv.out, xv.ipref) EXCEPT !.p = xv.p, !.pre.p = xv.p, !.pts = xv.pts]
    /\ UNCHANGED otherXv

\* ============================================================= kalloc.rs
NFrames == 3
\* `end`, the first address after the kernel, and PHYSTOP, scaled down to
\* NFrames pages of RAM after the kernel.
KEnd == 4104
PHYSTOP == PGROUNDUP(KEnd) + NFrames * PGSIZE
NULL == 0
Junk == "junk"

\* The pages kinit hands to kfree.
RECURSIVE freerange_pages(_, _)
freerange_pages(pg, pa_end) ==
    IF pg + PGSIZE <= pa_end THEN {pg} \cup freerange_pages(pg + PGSIZE, pa_end)
    ELSE {}
Managed == freerange_pages(PGROUNDUP(KEnd), PHYSTOP)

\* kfree's check of pa
kfree_panic(pa) == pa % PGSIZE # 0 \/ pa < KEnd \/ pa >= PHYSTOP

\* kfree's push of r under KMEM.lock, on k = [freelist, next]
kfree_push(k, r) ==
    [k EXCEPT !.next[r] = k.freelist, !.freelist = r]

\* freerange: kfree of every page from PGROUNDUP(pa_start) up
RECURSIVE freerange(_, _, _)
freerange(k, pg, pa_end) ==
    IF pg + PGSIZE <= pa_end
    THEN freerange(kfree_push(k, pg), pg + PGSIZE, pa_end)
    ELSE k

kalloc_pop_keeps(k, r) == k.freelist

\* kalloc's new list head after taking r
kalloc_pop(k, r) == IF r # NULL THEN k.next[r] ELSE k.freelist

KIdle == [pc |-> "idle", r |-> NULL, own |-> {}, msg |-> None]

Kinit ==
    /\ ~km.up
    /\ km' = [freerange(km, PGROUNDUP(KEnd), PHYSTOP) EXCEPT !.up = TRUE]
    /\ UNCHANGED otherKm

\* kalloc: KMEM.lock.acquire()
KallocAcq(p) ==
    /\ km.up /\ km.t[p].pc = "idle" /\ km.lock = {}
    /\ km' = [km EXCEPT !.lock = {p}, !.t[p].pc = "kalloc"]
    /\ UNCHANGED otherKm

\* kalloc: r = freelist; unlink; release
KallocPop(p) ==
    /\ km.t[p].pc = "kalloc"
    /\ km' = [km EXCEPT !.freelist = kalloc_pop(km, km.freelist),
                        !.t[p].r = km.freelist,
                        !.lock = {}, !.t[p].pc = "fill"]
    /\ UNCHANGED otherKm

\* kalloc: memset with junk and return r
KallocRet(p) ==
    LET r == km.t[p].r IN
    /\ km.t[p].pc = "fill"
    /\ km' = [km EXCEPT !.next = IF r # NULL THEN [@ EXCEPT ![r] = Junk] ELSE @,
                        !.t[p].own = IF r # NULL THEN @ \cup {r} ELSE @,
                        !.t[p].r = NULL, !.t[p].pc = "idle"]
    /\ UNCHANGED otherKm

\* kfree(pa) of a frame the caller got from kalloc: check, junk fill
KfreeCall(p, pa) ==
    /\ km.up /\ km.t[p].pc = "idle" /\ pa \in km.t[p].own
    /\ km' = IF kfree_panic(pa)
             THEN [km EXCEPT !.t[p].pc = "panic", !.t[p].msg = "kfree"]
             ELSE [km EXCEPT !.next[pa] = Junk, !.t[p].own = @ \ {pa},
                             !.t[p].r = pa, !.t[p].pc = "kfree"]
    /\ UNCHANGED otherKm

\* kfree: acquire, push, release
KfreePush(p) ==
    LET r == km.t[p].r
        k == kfree_push(km, r) IN
    /\ km.t[p].pc = "kfree" /\ km.lock = {}
    /\ km' = [k EXCEPT !.t[p].r = NULL, !.t[p].pc = "idle"]
    /\ UNCHANGED otherKm

\* =============================================================== pipe.rs
\* PIPESIZE, scaled down; the writer offers the bytes 1 .. MaxBytes in order.
PIPESIZE == 2
MaxBytes == 3
ReadSizes == {1, 8}

\* Pipe::write from the top of its loop, with the lock held: copy bytes in
\* until i reaches n, the reader is gone, or the ring is full (then
\* wakeup(&nread) and sleep(&nwrite)).  q is the pipe with the writer's
\* locals w = [pc, i, n].
RECURSIVE pipe_write(_)
pipe_write(q) ==
    IF q.w.i >= q.w.n
    THEN [q EXCEPT !.w.pc = "idle", !.w.ret = q.w.i,
                   !.r.pc = IF @ = "sleep" THEN "woken" ELSE @]
    ELSE IF ~q.readopen
    THEN [q EXCEPT !.w.pc = "idle", !.w.ret = -1]
    ELSE IF q.nwrite = q.nread + PIPESIZE
    THEN [q EXCEPT !.w.pc = "sleep", !.r.pc = IF @ = "sleep" THEN "woken" ELSE @]
    ELSE pipe_write([q EXCEPT !.data[q.nwrite % PIPESIZE] = q.next,
                              !.accepted = Append(@, q.next),
                              !.next = @ + 1,
                              !.nwrite = @ + 1,
                              !.w.i = @ + 1])

\* Pipe::read's copy loop: nread is incremented before data is indexed,
\* and the loop's i shadows the i that read returns.
RECURSIVE pipe_read_loop(_, _)
pipe_read_loop(q, i) ==
    IF i >= q.r.n \/ q.nread = q.nwrite THEN q
    ELSE LET nread == q.nread + 1
             ch == q.data[nread % PIPESIZE] IN
         pipe_read_loop([q EXCEPT !.nread = nread,
                                  !.delivered = Append(@, ch),
                                  !.r.cnt = @ + 1], i + 1)

\* Pipe::read from its first loop on, with the lock held.
pipe_read(q) ==
    IF q.nread = q.nwrite /\ q.writeopen
    THEN [q EXCEPT !.r.pc = "sleep"]
    ELSE LET q1 == pipe_read_loop([q EXCEPT !.r.cnt = 0], 0) IN
         [q1 EXCEPT !.r.pc = "idle", !.r.ret = 0,
                    !.w.pc = IF @ = "sleep" THEN "woken" ELSE @]

\* write(addr, n) by the writer
PipeWrite(n) ==
    /\ pp.w.pc = "idle" /\ pp.writeopen /\ pp.next + n - 1 <= MaxBytes
    /\ pp' = pipe_write([pp EXCEPT !.w.i = 0, !.w.n = n, !.w.call = "write"])
    /\ UNCHANGED otherPp

\* the writer returns from sleep
PipeWriteResume ==
    /\ pp.w.pc = "woken"
    /\ pp' = pipe_write(pp)
    /\ UNCHANGED otherPp

\* read(addr, n) by the reader
PipeRead(n) ==
    /\ pp.r.pc = "idle" /\ pp.readopen
    /\ pp' = pipe_read([pp EXCEPT !.r.n = n, !.r.cnt = 0, !.r.call = "read",
                                  !.r.slept = FALSE])
    /\ UNCHANGED otherPp

\* the reader returns from sleep
PipeReadResume ==
    /\ pp.r.pc = "woken"
    /\ pp' = pipe_read([pp EXCEPT !.r.slept = TRUE])
    /\ UNCHANGED otherPp

\* close's wakeup(&self.nread) / wakeup(&self.nwrite) on the peer, whose
\* position is pc
pipe_close_wakeup_none(pc) == pc

pipe_close_wakeup(pc) == IF pc = "sleep" THEN "woken" ELSE pc

\* close(writable): by the writer of the write end, by the reader of the
\* read end
PipeClose(writable) ==
    /\ IF writable THEN pp.w.pc = "idle" /\ pp.writeopen
                   ELSE pp.r.pc = "idle" /\ pp.readopen
    /\ pp' = IF writable
             THEN [pp EXCEPT !.writeopen = FALSE, !.w.call = "close",
                             !.r.pc = pipe_close_wakeup(@)]
             ELSE [pp EXCEPT !.readopen = FALSE, !.r.call = "close",
                             !.w.pc = pipe_close_wakeup(@)]
    /\ UNCHANGED otherPp

\* ==================================================== proc.rs: wait, exit
\* PROCS for the rendezvous: slot 1 is INIT_PROC, slot 2 its child (the
\* shell), the NKids slots after it are children of slot 2, and the NGrand
\* slots after those are UNUSED or, for orphan reaping, children of slot 3.
\* A used slot starts RUNNING on a hart of its own; a SLEEPING slot resumes
\* once a wakeup made it RUNNABLE.
NKids == 1
NGrand == 1
MaxCalls == 1
WSlots == 1 .. (2 + NKids + NGrand)
INIT_PROC == 1
WNoProc == 0
ProcAddr(q) == <<"proc", q>>
InitProcStatic == <<"static", "INIT_PROC">>
WaitAddrs == {0, 64}
ExitStatus == {257}
Killable == {2}
Waiters == {INIT_PROC, 2}

NewProc == [state |-> "UNUSED", chan |-> NoChan, killed |-> 0, xstate |-> 0,
            pid |-> 0, parent |-> WNoProc, cwd |-> FALSE]

WIdle == [pc |-> "idle", call |-> "none", addr |-> 0, status |-> 0, i |-> 1,
          havekids |-> FALSE, wchan |-> NoChan, widx |-> 1, wret |-> "idle",
          ret |-> 0, got |-> WNoProc, kids |-> FALSE, kl |-> 0,
          cpfail |-> FALSE, slept |-> FALSE, msg |-> None]

WChildren(w, p) == {q \in WSlots : w.procs[q].parent = p}

\* freeproc(pp): the fields wait and exit read.
freeproc(pr) ==
    [pr EXCEPT !.pid = 0, !.parent = WNoProc, !.chan = NoChan, !.killed = 0,
               !.xstate = 0, !.state = "UNUSED"]

WRuns(p) == wt.procs[p].state = "RUNNING" /\ wt.t[p].msg = None

\* wait(addr): WAIT_LOCK.acquire(); havekids = false (outside the loop)
WaitCall(p, addr) ==
    /\ WRuns(p) /\ wt.t[p].pc = "idle" /\ wt.calls < MaxCalls
    /\ wt.wait_lock = WNoProc
    /\ wt' = [wt EXCEPT !.wait_lock = p, !.calls = @ + 1,
                        !.t[p] = [WIdle EXCEPT !.pc = "scan", !.call = "wait",
                                               !.addr = addr]]
    /\ UNCHANGED otherWt

\* The outcome of one turn of wait's for loop on slot kid; cp is whether
\* copyout of the exit status succeeds.
wait_found(w, p, kid, cp) ==
    LET pre == [w EXCEPT !.t[p].kids = TRUE, !.t[p].kl = w.procs[p].killed,
                         !.t[p].havekids = TRUE] IN
    IF w.t[p].addr # 0 /\ ~cp
    THEN [pre EXCEPT !.wait_lock = WNoProc, !.t[p].ret = -1,
                     !.t[p].cpfail = TRUE, !.t[p].pc = "done"]
    ELSE [pre EXCEPT !.procs[kid] = freeproc(@), !.wait_lock = WNoProc,
                     !.t[p].ret = w.procs[kid].pid, !.t[p].got = kid,
                     !.t[p].pc = "done"]

wait_scan(w, p, kid, cp) ==
    IF w.procs[kid].state = "ZOMBIE"
    THEN wait_found(w, p, kid, cp)
    ELSE [w EXCEPT !.t[p].havekids = TRUE, !.t[p].i = kid + 1]

\* The next slot from i on whose parent is p (parent links are stable while
\* WAIT_LOCK is held), or past the table.
RECURSIVE wait_next(_, _, _)
wait_next(w, p, i) ==
    IF i \notin WSlots THEN i
    ELSE IF w.procs[i].parent # WNoProc /\ w.procs[i].parent = p THEN i
    ELSE wait_next(w, p, i + 1)

WaitScan(p) ==
    /\ WRuns(p) /\ wt.t[p].pc = "scan"
    /\ LET kid == wait_next(wt, p, wt.t[p].i) IN
       /\ kid \in WSlots
       /\ wt.plock[kid] = WNoProc
       /\ \E cp \in (IF wt.t[p].addr # 0 /\ wt.procs[kid].state = "ZOMBIE"
                     THEN BOOLEAN ELSE {TRUE}) :
             wt' = wait_scan(wt, p, kid, cp)
    /\ UNCHANGED otherWt

\* if !havekids || killed(p) != 0 { release; return -1 }  else sleep
wait_decide(w, p) ==
    IF ~w.t[p].havekids \/ w.procs[p].killed # 0
    THEN [w EXCEPT !.wait_lock = WNoProc, !.t[p].ret = -1, !.t[p].pc = "done",
                   !.t[p].kids = WChildren(w, p) # {},
                   !.t[p].kl = w.procs[p].killed]
    ELSE [w EXCEPT !.t[p].pc = "sleep"]

WaitDecide(p) ==
    /\ WRuns(p) /\ wt.t[p].pc = "scan"
    /\ wait_next(wt, p, wt.t[p].i) \notin WSlots
    /\ wt.t[p].havekids => wt.plock[p] = WNoProc
    /\ wt' = wait_decide(wt, p)
    /\ UNCHANGED otherWt

\* sleep(p, &WAIT_LOCK): p.lock.acquire()
WaitSleepAcq(p) ==
    /\ WRuns(p) /\ wt.t[p].pc = "sleep" /\ wt.plock[p] = WNoProc
    /\ wt' = [wt EXCEPT !.plock[p] = p, !.t[p].pc = "sleep_rel"]
    /\ UNCHANGED otherWt

\* lk.release()
WaitSleepRel(p) ==
    /\ WRuns(p) /\ wt.t[p].pc = "sleep_rel"
    /\ wt' = [wt EXCEPT !.wait_lock = WNoProc, !.t[p].pc = "sleep_sched"]
    /\ UNCHANGED otherWt

\* p.chan = chan; p.state = SLEEPING; sched(): the scheduler releases p.lock
wait_chan_static(p) == InitProcStatic
wait_chan(p) == ProcAddr(p)

WaitSleepSched(p) ==
    /\ WRuns(p) /\ wt.t[p].pc = "sleep_sched"
    /\ wt' = [wt EXCEPT !.procs[p].chan = wait_chan(p),
                        !.procs[p].state = "SLEEPING",
                        !.plock[p] = WNoProc, !.t[p].pc = "asleep",
                        !.t[p].slept = TRUE]
    /\ UNCHANGED otherWt

\* The scheduler runs p again; p.chan = None; p.lock.release()
WaitResume(p) ==
    /\ wt.t[p].pc = "asleep" /\ wt.procs[p].state = "RUNNABLE"
    /\ wt.plock[p] = WNoProc
    /\ wt' = [wt EXCEPT !.procs[p].state = "RUNNING",
                        !.procs[p].chan = NoChan, !.t[p].pc = "reacq"]
    /\ UNCHANGED otherWt

\* lk.acquire(), then the loop's next turn (havekids keeps its value)
WaitReacq(p) ==
    /\ WRuns(p) /\ wt.t[p].pc = "reacq" /\ wt.wait_lock = WNoProc
    /\ wt' = [wt EXCEPT !.wait_lock = p, !.t[p].pc = "scan", !.t[p].i = 1]
    /\ UNCHANGED otherWt

WaitReturn(p) ==
    /\ WRuns(p) /\ wt.t[p].pc = "done"
    /\ wt' = [wt EXCEPT !.t[p] = WIdle]
    /\ UNCHANGED otherWt

\* exit(status) up to WAIT_LOCK.acquire(): the init check, the open files
\* and the working directory
ExitCall(p, status) ==
    /\ WRuns(p) /\ wt.t[p].pc = "idle"
    /\ IF p = INIT_PROC
       THEN wt' = [wt EXCEPT !.t[p].msg = "init exiting"]
       ELSE wt' = [wt EXCEPT !.procs[p].cwd = FALSE,
                             !.t[p] = [WIdle EXCEPT !.pc = "exit_acq",
                                                    !.call = "exit",
                                                    !.status = status]]
    /\ UNCHANGED otherWt

ExitAcq(p) ==
    /\ WRuns(p) /\ wt.t[p].pc = "exit_acq" /\ wt.wait_lock = WNoProc
    /\ wt' = [wt EXCEPT !.wait_lock = p, !.t[p].pc = "reparent", !.t[p].i = 1]
    /\ UNCHANGED otherWt

\* reparent(p): one turn of its loop
exit_reparent(w, p) ==
    LET kid == w.t[p].i IN
    IF kid \notin WSlots
    THEN [w EXCEPT !.t[p].pc = "wakeup", !.t[p].widx = 1,
                   !.t[p].wchan = ProcAddr(w.procs[p].parent),
                   !.t[p].wret = "zombie"]
    ELSE IF w.procs[kid].parent # WNoProc /\ w.procs[kid].parent = p
         THEN [w EXCEPT !.procs[kid].parent = INIT_PROC,
                        !.t[p].pc = "wakeup", !.t[p].widx = 1,
                        !.t[p].wchan = InitProcStatic,
                        !.t[p].wret = "reparent", !.t[p].i = kid + 1]
         ELSE [w EXCEPT !.t[p].i = kid + 1]

ExitReparent(p) ==
    /\ WRuns(p) /\ wt.t[p].pc = "reparent"
    /\ wt' = exit_reparent(wt, p)
    /\ UNCHANGED otherWt

\* wakeup(chan): one turn of its loop
exit_wakeup(w, p) ==
    LET q == w.t[p].widx IN
    IF q # p /\ w.procs[q].state = "SLEEPING" /\ w.procs[q].chan = w.t[p].wchan
    THEN [w EXCEPT !.procs[q].state = "RUNNABLE", !.t[p].widx = q + 1]
    ELSE [w EXCEPT !.t[p].widx = q + 1]

ExitWakeup(p) ==
    /\ WRuns(p) /\ wt.t[p].pc = "wakeup"
    /\ IF wt.t[p].widx \in WSlots
       THEN /\ wt.t[p].widx # p => wt.plock[wt.t[p].widx] = WNoProc
            /\ wt' = exit_wakeup(wt, p)
       ELSE wt' = [wt EXCEPT !.t[p].pc = wt.t[p].wret]
    /\ UNCHANGED otherWt

\* p.lock.acquire(); xstate = status as u8; state = ZOMBIE;
\* WAIT_LOCK.release(); sched(): the scheduler releases p.lock
ExitZombie(p) ==
    /\ WRuns(p) /\ wt.t[p].pc = "zombie" /\ wt.plock[p] = WNoProc
    /\ wt' = [wt EXCEPT !.procs[p].xstate = wt.t[p].status % U8,
                        !.procs[p].state = "ZOMBIE",
                        !.wait_lock = WNoProc, !.t[p].pc = "exited"]
    /\ UNCHANGED otherWt

\* setkilled(): lock.acquire(); killed = 1; lock.release()
WSetkilled(q) ==
    /\ wt.procs[q].state \notin {"UNUSED", "ZOMBIE"} /\ wt.procs[q].killed = 0
    /\ wt.plock[q] = WNoProc
    /\ wt' = [wt EXCEPT !.procs[q].killed = 1]
    /\ UNCHANGED otherWt

\* -------------------------------------- user/init.rs: main's wait loop
\* The shell is the child init forked last; pids are the slot numbers.
ShSlot == 2

\* wpid = wait(0)
InitWait ==
    /\ WRuns(INIT_PROC) /\ wt.t[INIT_PROC].pc = "idle"
    /\ wt.wait_lock = WNoProc
    /\ wt' = [wt EXCEPT !.wait_lock = INIT_PROC,
                        !.t[INIT_PROC] = [WIdle EXCEPT !.pc = "scan",
                                                       !.call = "wait"]]
    /\ UNCHANGED otherWt

\* fork() by init, taken to succeed: the lowest UNUSED slot becomes the new
\* shell, a child of init
init_fork(w) ==
    LET np == CHOOSE q \in WSlots :
                 /\ w.procs[q].state = "UNUSED"
                 /\ \A r \in WSlots : w.procs[r].state = "UNUSED" => q <= r
    IN  [w EXCEPT !.procs[np] = [NewProc EXCEPT !.state = "RUNNING", !.pid = np,
                                                !.cwd = TRUE,
                                                !.parent = INIT_PROC],
                  !.t[np] = WIdle]

\* The branches after wait returns: the shell exited (break, and the outer
\* loop forks a new one), wait failed (exit(1)), or an orphan was reaped.
InitMain ==
    /\ WRuns(INIT_PROC) /\ wt.t[INIT_PROC].pc = "done"
    /\ wt' = IF wt.t[INIT_PROC].ret = ShSlot
             THEN [init_fork(wt) EXCEPT !.t[INIT_PROC] = WIdle]
             ELSE IF wt.t[INIT_PROC].ret < 0
             THEN [wt EXCEPT !.t[INIT_PROC].msg = "init exiting"]
             ELSE [wt EXCEPT !.t[INIT_PROC] = WIdle]
    /\ UNCHANGED otherWt

\* exit(status) by the shell, up to WAIT_LOCK.acquire(); the shells exit
\* at most MaxCalls times
ShellExit(status) ==
    /\ WRuns(ShSlot) /\ wt.t[ShSlot].pc = "idle" /\ wt.calls < MaxCalls
    /\ wt' = [wt EXCEPT !.procs[ShSlot].cwd = FALSE, !.calls = @ + 1,
                        !.t[ShSlot] = [WIdle EXCEPT !.pc = "exit_acq",
                                                    !.call = "exit",
                                                    !.status = status]]
    /\ UNCHANGED otherWt

\* ==================================================== sysproc.rs: fork
\* Physical frames hold either a Trapframe (its a0 and epc) or other data.
\* kinit frees the frames in ascending order, so kalloc hands them out in
\* descending order: the first process's trapframe and page table sit right
\* above the frames that are still free, below the frames the kernel took
\* at boot.
TRAPFRAME_SIZE == 288
NFree == 4
NPF == 3
NOFILE == 2
FSlots == 1 .. NPF
Fds == 0 .. (NOFILE - 1)
FFiles == {1, 2}
UserA0 == {7}
MaxForks == 2

\* Frames that `t.copy_to(dest, sz)` covers with sz = size_of::<Trapframe>():
\* copy_to counts in units of Trapframe, so it moves sz * sz bytes.
copy_to_bytes(sz) == sz * TRAPFRAME_SIZE
CopyFrames(sz) == (copy_to_bytes(sz) + PGSIZE - 1) \div PGSIZE

KernelFrames == CopyFrames(TRAPFRAME_SIZE)
NMemF == NFree + 2 + KernelFrames
MemFrames == 1 .. NMemF
FirstTf == NFree + 2
OtherData == [a0 |-> 255, epc |-> 255]
NewTf == [a0 |-> 0, epc |-> 0]
FNone == 0

FProc0 == [state |-> "UNUSED", pid |-> 0, parent |-> FNone, locked |-> FALSE,
           trapframe |-> FNone, pagetable |-> FNone, sz |-> 0,
           ofile |-> [fd \in Fds |-> FNone], cwd |-> FNone]

FIdle == [pc |-> "idle", np |-> FNone, pid |-> 0, ret |-> 0]

\* ptr::copy of n frames from frame src to frame dst (memmove).
copy_to(frames, src, dst, n) ==
    [f \in MemFrames |->
        IF f >= dst /\ f < dst + n /\ (src + (f - dst)) \in MemFrames
        THEN frames[src + (f - dst)] ELSE frames[f]]

\* KMEM.kalloc(): pop the free list, fill the frame with junk
fk_kalloc(k) ==
    IF k.freelist = <<>> THEN [k EXCEPT !.r = FNone]
    ELSE [k EXCEPT !.r = Head(k.freelist), !.freelist = Tail(k.freelist),
                   !.mem[Head(k.freelist)] = OtherData]

fk_kfree(k, f) == [k EXCEPT !.freelist = <<f>> \o @, !.mem[f] = OtherData]

\* freeproc(np) for the fields fork sets up
fk_freeproc(k, np) ==
    LET k1 == IF k.procs[np].trapframe # FNone
              THEN fk_kfree(k, k.procs[np].trapframe) ELSE k
        k2 == IF k.procs[np].pagetable # FNone
              THEN fk_kfree(k1, k.procs[np].pagetable) ELSE k1 IN
    [k2 EXCEPT !.procs[np].trapframe = FNone, !.procs[np].pagetable = FNone,
               !.procs[np].sz = 0, !.procs[np].pid = 0,
               !.procs[np].parent = FNone, !.procs[np].state = "UNUSED"]

\* allocproc(): the first UNUSED slot, with its lock held, or None.
\* inner_alloc: pid, USED, trapframe page, empty page table (ptok is whether
\* proc_pagetable finds the memory it needs beyond its first page).
fk_unused(k) == {q \in FSlots : k.procs[q].state = "UNUSED"}

fk_allocproc(k, ptok) ==
    IF fk_unused(k) = {} THEN [k EXCEPT !.r = FNone]
    ELSE
    LET np == CHOOSE q \in fk_unused(k) : \A o \in fk_unused(k) : q <= o
        k1 == [k EXCEPT !.procs[np].locked = TRUE, !.procs[np].pid = k.next_pid,
                        !.next_pid = @ + 1, !.procs[np].state = "USED"]
        k2 == fk_kalloc(k1) IN
    IF k2.r = FNone
    THEN [fk_freeproc(k2, np) EXCEPT !.procs[np].locked = FALSE, !.r = FNone]
    ELSE LET k3 == [k2 EXCEPT !.procs[np].trapframe = k2.r]
             k4 == fk_kalloc(k3) IN
         IF k4.r = FNone \/ ~ptok
         THEN [fk_freeproc(IF k4.r = FNone THEN k4 ELSE fk_kfree(k4, k4.r), np)
                  EXCEPT !.procs[np].locked = FALSE, !.r = FNone]
         ELSE [k4 EXCEPT !.procs[np].pagetable = k4.r, !.r = np]

\* fork() from the copy of the user registers up to np.lock.release()
fk_files(k, p, np) ==
    [k EXCEPT !.procs[np].ofile = k.procs[p].ofile,
              !.ref_cnt = [f \in FFiles |->
                             @[f] + Cardinality({fd \in Fds :
                                                  k.procs[p].ofile[fd] = f})]]

fk_copy(k, p, np) ==
    LET src == k.procs[p].trapframe
        dst == k.procs[np].trapframe
        k1 == [k EXCEPT !.procs[np].sz = k.procs[p].sz,
                        !.mem = copy_to(k.mem, src, dst,
                                        CopyFrames(TRAPFRAME_SIZE))]
        k2 == [k1 EXCEPT !.mem[dst].a0 = 0]
        k3 == fk_files(k2, p, np) IN
    IF k.procs[p].cwd = FNone
    THEN [k3 EXCEPT !.t[p].pc = "done", !.t[p].ret = -1]
    ELSE [k3 EXCEPT !.iref = @ + 1, !.procs[np].cwd = k.procs[p].cwd,
                    !.procs[np].locked = FALSE,
                    !.t[p].pc = "link", !.t[p].np = np,
                    !.t[p].pid = k.procs[np].pid]

\* fork() up to np.lock.release(); cpok is whether uvmcopy succeeds
fk_fork(k, p, ptok, cpok) ==
    LET k1 == fk_allocproc(k, ptok) IN
    IF k1.r = FNone
    THEN [k1 EXCEPT !.t[p].pc = "done", !.t[p].ret = -1]
    ELSE IF k.procs[p].pagetable = FNone
    THEN [k1 EXCEPT !.t[p].pc = "done", !.t[p].ret = -1]
    ELSE IF ~cpok
    THEN [fk_freeproc(k1, k1.r) EXCEPT !.procs[k1.r].locked = FALSE,
                                       !.t[p].pc = "done", !.t[p].ret = -1]
    ELSE fk_copy(k1, p, k1.r)

FRuns(p) == fk.procs[p].state = "RUNNING"

ForkCall(p) ==
    /\ FRuns(p) /\ fk.t[p].pc = "idle" /\ fk.forks < MaxForks
    /\ \A q \in FSlots : ~fk.procs[q].locked
    /\ \E ptok \in BOOLEAN, cpok \in BOOLEAN :
          \E r \in {fk_fork(fk, p, ptok, cpok)} :
              fk' = [r EXCEPT !.r = FNone, !.forks = @ + 1]
    /\ UNCHANGED otherFk

\* WAIT_LOCK.acquire(); np.parent = Some(p); WAIT_LOCK.release()
ForkLink(p) ==
    /\ FRuns(p) /\ fk.t[p].pc = "link"
    /\ fk' = [fk EXCEPT !.procs[fk.t[p].np].parent = p, !.t[p].pc = "run"]
    /\ UNCHANGED otherFk

\* np.lock.acquire(); np.state = RUNNABLE; np.lock.release()
ForkRun(p) ==
    /\ FRuns(p) /\ fk.t[p].pc = "run"
    /\ ~fk.procs[fk.t[p].np].locked
    /\ fk' = [fk EXCEPT !.procs[fk.t[p].np].state = "RUNNABLE",
                        !.t[p].pc = "done", !.t[p].ret = fk.t[p].pid]
    /\ UNCHANGED otherFk

\* return Some(pid) / None; syscall() stores the result in a0
ForkReturn(p) ==
    /\ FRuns(p) /\ fk.t[p].pc = "done"
    /\ fk' = [fk EXCEPT !.t[p] = FIdle,
                        !.mem[fk.procs[p].trapframe].a0 = fk.t[p].ret]
    /\ UNCHANGED otherFk

\* The scheduler runs a RUNNABLE process.
FkSched(q) ==
    /\ fk.procs[q].state = "RUNNABLE" /\ ~fk.procs[q].locked
    /\ fk' = [fk EXCEPT !.procs[q].state = "RUNNING"]
    /\ UNCHANGED otherFk

\* User code of a running process loads a0 before its next system call.
FkUser(p, v) ==
    /\ FRuns(p) /\ fk.t[p].pc = "idle"
    /\ fk.mem[fk.procs[p].trapframe].a0 # v
    /\ fk' = [fk EXCEPT !.mem[fk.procs[p].trapframe].a0 = v]
    /\ UNCHANGED otherFk

\* ============================================ sysfile.rs, file.rs: close
\* One process's descriptor table and the open-file table FTABLE.
NFILE == 2
CFiles == 1 .. NFILE
CNone == 0
CArgs == -1 .. NOFILE

NewFile == [ref_cnt |-> 0, file_type |-> "FD_NONE"]

\* filealloc(): the first entry with ref_cnt == 0
filealloc(c) ==
    LET free == {f \in CFiles : c.file[f].ref_cnt = 0} IN
    IF free = {} THEN [c EXCEPT !.f = CNone]
    ELSE LET f == CHOOSE x \in free : \A y \in free : x <= y IN
         [c EXCEPT !.file[f].ref_cnt = 1, !.f = f]

\* fdalloc(f): the first empty descriptor gets f
fdalloc(c, f) ==
    LET free == {fd \in Fds : c.ofile[fd] = CNone} IN
    IF free = {} THEN [c EXCEPT !.fd = -1]
    ELSE LET fd == CHOOSE x \in free : \A y \in free : x <= y IN
         [c EXCEPT !.ofile[fd] = f, !.fd = fd]

\* argfd(0): the descriptor and its file, or None
argfd(c, a) ==
    IF a < 0 \/ a >= NOFILE THEN CNone
    ELSE c.ofile[a]

\* fileclose(f)
fileclose(c, f) ==
    IF c.file[f].ref_cnt < 1 THEN [c EXCEPT !.msg = "fileclose"]
    ELSE IF c.file[f].ref_cnt - 1 > 0
    THEN [c EXCEPT !.file[f].ref_cnt = @ - 1]
    ELSE [c EXCEPT !.file[f].ref_cnt = 0, !.file[f].file_type = "FD_NONE",
                   !.iput = IF c.file[f].file_type = "FD_NONE" THEN @
                            ELSE @ \cup {f}]

\* filedup(f)
filedup(c, f) ==
    IF c.file[f].ref_cnt < 1 THEN [c EXCEPT !.msg = "filedup"]
    ELSE [c EXCEPT !.file[f].ref_cnt = @ + 1]

\* sys_close(): the descriptor it clears
sys_close_fd(c, a) == c.fd

sys_close(c, a) ==
    LET f == argfd(c, a) IN
    IF f = CNone THEN [c EXCEPT !.ret = -1]
    ELSE LET c1 == fdalloc(c, f) IN
         IF c1.fd = -1 THEN [c1 EXCEPT !.ret = -1]
         ELSE fileclose([c1 EXCEPT !.ofile[sys_close_fd(c1, a)] = CNone,
                                   !.ret = 0], f)

\* sys_dup()
sys_dup(c, a) ==
    LET f == argfd(c, a) IN
    IF f = CNone THEN [c EXCEPT !.ret = -1]
    ELSE LET c1 == fdalloc(c, f) IN
         IF c1.fd = -1 THEN [c1 EXCEPT !.ret = -1]
         ELSE [filedup(c1, f) EXCEPT !.ret = c1.fd]

\* sys_open() from filealloc() on, for a regular file that namei found
sys_open_file(c) ==
    LET c1 == filealloc(c) IN
    IF c1.f = CNone THEN [c1 EXCEPT !.ret = -1]
    ELSE LET c2 == fdalloc(c1, c1.f) IN
         IF c2.fd = -1 THEN [fileclose(c2, c1.f) EXCEPT !.ret = -1]
         ELSE [c2 EXCEPT !.file[c1.f].file_type = "FD_INODE",
                         !.iput = @ \ {c1.f}, !.ret = c2.fd]

CStart(call, a) == [cl EXCEPT !.call = call, !.arg = a, !.fd = -1, !.f = CNone]

SysClose(a) ==
    /\ cl.msg = None
    /\ \E r \in {sys_close(CStart("close", a), a)} : cl' = r
    /\ UNCHANGED otherCl

SysDup(a) ==
    /\ cl.msg = None
    /\ \E r \in {sys_dup(CStart("dup", a), a)} : cl' = r
    /\ UNCHANGED otherCl

SysOpen ==
    /\ cl.msg = None
    /\ \E r \in {sys_open_file(CStart("open", 0))} : cl' = r
    /\ UNCHANGED otherCl

\* ================================================= fs.rs: iput, itrunc
\* The inode table (one entry per inode number), the inodes and the block
\* bitmap as the buffers handed to log_write hold them, and one kernel
\* thread.  bread is the buffer cache's: each call either returns the
\* block's buffer or panics in bget, and br is the number of calls that
\* return before one panics (BrAll: none panics).
NDIRECT == 2
NINDIRECT == 2
MaxRef == 2
Inos == {1, 2}
NO_TYPE == 0
T_FILE == 2
BrAll == 99
DirectIdx == 0 .. (NDIRECT - 1)
IndIdx == 0 .. (NINDIRECT - 1)
NoAddrs == [k \in 0 .. NDIRECT |-> 0]
IPB == 64
BPB == 32768
NINODES == 200
InodeStart == LOGSTART + NLOG
BmapStart == InodeStart + (NINODES \div IPB + 1)
IBLOCK(i) == i \div IPB + InodeStart
BBLOCK(b) == b \div BPB + BmapStart

NewINode == [ref_cnt |-> 0, valid |-> FALSE, locked |-> FALSE,
             file_type |-> NO_TYPE, nlink |-> 0, size |-> 0, addrs |-> NoAddrs]

DiskAddrs(i) == [k \in 0 .. NDIRECT |-> 10 * i + k + 1]
DiskInd(i) == [k \in IndIdx |-> IF k = 0 THEN 0 ELSE 10 * i + NDIRECT + 1 + k]
BlocksOf(addrs, ind) ==
    ({addrs[k] : k \in 0 .. NDIRECT} \cup {ind[k] : k \in IndIdx}) \ {0}

IvIdle == [pc |-> "idle", ip |-> 0, was |-> NewINode, blocks |-> {}, msg |-> None]

\* bread(dev, b): one more call; it panics when the budget is used up
iv_bread(v) ==
    IF v.br = 0 THEN [v EXCEPT !.t.msg = "bread"]
    ELSE IF v.br = BrAll THEN v
    ELSE [v EXCEPT !.br = @ - 1]

IvOk(v) == v.t.msg = None

\* log_write(bp) on the header in memory (LOG.size is that of the image's
\* log, above LOGSIZE - 1 only by the header block)
iv_log_write(v, blockno) ==
    IF v.lh.n >= LOGSIZE \/ v.lh.n >= NLOG - 1
    THEN [v EXCEPT !.t.msg = "too big a transaction"]
    ELSE IF ~v.intx THEN [v EXCEPT !.t.msg = "log_write outside of trans"]
    ELSE LET idx == log_write_idx(v.lh, blockno, 0)
             v1 == [v EXCEPT !.lh.block[idx] = blockno] IN
         IF idx = v.lh.n THEN [v1 EXCEPT !.lh.n = @ + 1] ELSE v1

\* bfree(dev, b)
bfree(v, b) ==
    LET v1 == iv_bread(v) IN
    IF ~IvOk(v1) THEN v1
    ELSE IF b \notin v1.bmap THEN [v1 EXCEPT !.t.msg = "freeing free block"]
    ELSE iv_log_write([v1 EXCEPT !.bmap = @ \ {b}], BBLOCK(b))

\* iupdate(): copy the in-memory inode to its buffer, log_write it
iupdate(v, i) ==
    LET v1 == iv_bread(v) IN
    IF ~IvOk(v1) THEN v1
    ELSE iv_log_write([v1 EXCEPT !.dinode[i] =
                          [file_type |-> v1.inode[i].file_type,
                           nlink |-> v1.inode[i].nlink,
                           size |-> v1.inode[i].size,
                           addrs |-> v1.inode[i].addrs]], IBLOCK(i))

\* itrunc(): the direct blocks from index k on
RECURSIVE itrunc_direct(_, _, _)
itrunc_direct(v, i, k) ==
    IF k >= NDIRECT \/ ~IvOk(v) THEN v
    ELSE IF v.inode[i].addrs[k] # 0
    THEN LET v1 == bfree(v, v.inode[i].addrs[k]) IN
         IF ~IvOk(v1) THEN v1
         ELSE itrunc_direct([v1 EXCEPT !.inode[i].addrs[k] = 0], i, k + 1)
    ELSE itrunc_direct(v, i, k + 1)

\* itrunc(): the blocks a[k..] listed in the indirect block
RECURSIVE itrunc_listed(_, _, _)
itrunc_listed(v, a, k) ==
    IF k >= NINDIRECT \/ ~IvOk(v) THEN v
    ELSE IF a[k] # 0 THEN itrunc_listed(bfree(v, a[k]), a, k + 1)
    ELSE itrunc_listed(v, a, k + 1)

itrunc_indirect(v, i) ==
    IF v.inode[i].addrs[NDIRECT] = 0 THEN v
    ELSE LET v1 == iv_bread(v) IN
         IF ~IvOk(v1) THEN v1
         ELSE LET v2 == itrunc_listed(v1, v1.ind[v.inode[i].addrs[NDIRECT]], 0)
                  v3 == IF IvOk(v2) THEN bfree(v2, v.inode[i].addrs[NDIRECT])
                        ELSE v2 IN
              IF ~IvOk(v3) THEN v3
              ELSE [v3 EXCEPT !.inode[i].addrs[NDIRECT] = 0]

itrunc_end(v, i) ==
    IF ~IvOk(v) THEN v ELSE iupdate([v EXCEPT !.inode[i].size = 0], i)

itrunc(v, i) == itrunc_end(itrunc_indirect(itrunc_direct(v, i, 0), i), i)

\* iput(): the test under ITABLE.lock
iput_last(ino) == ino.ref_cnt = 1 /\ ino.valid /\ ino.nlink = 0

\* iput(): itrunc(); file_type = NO_TYPE; iupdate(); valid = false;
\* release_sleep()
iput_free_end(v, i) ==
    IF ~IvOk(v) THEN v
    ELSE LET v1 == iupdate([v EXCEPT !.inode[i].file_type = NO_TYPE], i) IN
         IF ~IvOk(v1) THEN v1
         ELSE [v1 EXCEPT !.inode[i].valid = FALSE, !.inode[i].locked = FALSE,
                         !.t.pc = "drop"]

iput_free(v, i) == iput_free_end(itrunc(v, i), i)

IvIdleNow == iv.t.pc = "idle" /\ iv.t.msg = None

\* begin_op() / end_op() of the caller
IvBeginOp ==
    /\ IvIdleNow /\ ~iv.intx
    /\ iv' = [iv EXCEPT !.intx = TRUE]
    /\ UNCHANGED otherIv

IvEndOp ==
    /\ IvIdleNow /\ iv.intx
    /\ \A i \in Inos : ~iv.inode[i].locked
    /\ iv' = [iv EXCEPT !.intx = FALSE, !.lh.n = 0]
    /\ UNCHANGED otherIv

\* iget(dev, inum) / idup()
Iget(i) ==
    /\ IvIdleNow /\ iv.inode[i].ref_cnt < MaxRef
    /\ iv.inode[i].ref_cnt = 0 => iv.dinode[i].file_type # NO_TYPE
    /\ iv' = IF iv.inode[i].ref_cnt > 0
             THEN [iv EXCEPT !.inode[i].ref_cnt = @ + 1]
             ELSE [iv EXCEPT !.inode[i].ref_cnt = 1, !.inode[i].valid = FALSE]
    /\ UNCHANGED otherIv

\* ilock()
ilock(v, i) ==
    IF v.inode[i].ref_cnt < 1 THEN [v EXCEPT !.t.msg = "ilock"]
    ELSE LET v0 == [v EXCEPT !.inode[i].locked = TRUE] IN
         IF v0.inode[i].valid THEN v0
         ELSE LET v1 == iv_bread(v0) IN
              IF ~IvOk(v1) THEN v1
              ELSE LET v2 == [v1 EXCEPT
                                !.inode[i].file_type = v1.dinode[i].file_type,
                                !.inode[i].nlink = v1.dinode[i].nlink,
                                !.inode[i].size = v1.dinode[i].size,
                                !.inode[i].addrs = v1.dinode[i].addrs,
                                !.inode[i].valid = TRUE] IN
                   IF v2.inode[i].file_type = NO_TYPE
                   THEN [v2 EXCEPT !.t.msg = "ilock: no type"]
                   ELSE v2

Ilock(i, br) ==
    /\ IvIdleNow /\ iv.inode[i].ref_cnt >= 1 /\ ~iv.inode[i].locked
    /\ \E r \in {ilock([iv EXCEPT !.br = br], i)} : iv' = r
    /\ UNCHANGED otherIv

\* iunlock()
Iunlock(i) ==
    /\ IvIdleNow /\ iv.inode[i].locked
    /\ iv' = IF iv.inode[i].ref_cnt < 1
             THEN [iv EXCEPT !.t.msg = "iunlock"]
             ELSE [iv EXCEPT !.inode[i].locked = FALSE]
    /\ UNCHANGED otherIv

\* iput() up to the test, inside the caller's transaction
IputCall(i) ==
    /\ IvIdleNow /\ iv.intx
    /\ iv.inode[i].ref_cnt >= 1 /\ ~iv.inode[i].locked
    /\ LET ghost == [IvIdle EXCEPT !.ip = i, !.was = iv.inode[i],
                       !.blocks = IF iv.inode[i].valid
                                  THEN BlocksOf(iv.inode[i].addrs,
                                         IF iv.inode[i].addrs[NDIRECT] = 0
                                         THEN [k \in IndIdx |-> 0]
                                         ELSE iv.ind[iv.inode[i].addrs[NDIRECT]])
                                  ELSE {}] IN
       iv' = IF iput_last(iv.inode[i])
             THEN [iv EXCEPT !.inode[i].locked = TRUE,
                             !.t = [ghost EXCEPT !.pc = "free"]]
             ELSE [iv EXCEPT !.t = [ghost EXCEPT !.pc = "drop"]]
    /\ UNCHANGED otherIv

IputFree(br) ==
    /\ iv.t.pc = "free" /\ iv.t.msg = None
    /\ \E r \in {iput_free([iv EXCEPT !.br = br], iv.t.ip)} : iv' = r
    /\ UNCHANGED otherIv

\* ref_cnt -= 1
IputDrop ==
    /\ iv.t.pc = "drop" /\ iv.t.msg = None
    /\ iv' = [iv EXCEPT !.inode[iv.t.ip].ref_cnt = @ - 1, !.t.pc = "idle"]
    /\ UNCHANGED otherIv

\* ======================================================= trap.rs: usertrap
\* One process between user mode and usertrap(); its killed flag is set by
\* usertrap itself or by setkilled() on another hart.
MaxTraps == 2
\* scause: 8 is an environment call from user mode; the interrupt codes
\* 0x8000000000000009 and 0x8000000000000001 and any other cause by name
SCAUSE_SYSCALL == "ecall"
Scauses == {SCAUSE_SYSCALL, "external", "timer", "fault"}

\* devintr(): 1 for a device interrupt, 2 for the timer, 0 otherwise
devintr(scause) ==
    IF scause = "external" THEN 1 ELSE IF scause = "timer" THEN 2 ELSE 0

\* killed(p): the flag read under p.lock
killed_never(k) == 0
killed(k) == k.killed

\* exit(-1): xstate = status as u8, the process never runs again
kt_exit(k, status) ==
    [k EXCEPT !.pc = "exited", !.status = status, !.xstate = status % U8]

\* usertrap() up to the test of scause
UsertrapEnter(scause) ==
    /\ kt.pc = "user" /\ kt.traps < MaxTraps
    /\ kt' = [kt EXCEPT !.pc = IF scause = SCAUSE_SYSCALL THEN "syscall_chk"
                               ELSE "devintr",
                        !.scause = scause, !.which_dev = 0, !.ran = FALSE,
                        !.entry_killed = kt.killed, !.traps = @ + 1]
    /\ UNCHANGED otherKt

\* if killed(p) != 0 { exit(-1) }; tf.epc += 4; intr_on()
UsertrapSyscallChk ==
    /\ kt.pc = "syscall_chk"
    /\ kt' = IF killed(kt) # 0 THEN kt_exit(kt, -1)
             ELSE [kt EXCEPT !.pc = "syscall", !.epc = @ + 4]
    /\ UNCHANGED otherKt

\* syscall(): the handler runs and its result goes to a0
UsertrapSyscall ==
    /\ kt.pc = "syscall"
    /\ kt' = [kt EXCEPT !.pc = "killed_chk", !.ran = TRUE]
    /\ UNCHANGED otherKt

\* which_dev = devintr(); an unexpected scause: p.setkilled()
UsertrapDevintr ==
    /\ kt.pc = "devintr"
    /\ kt' = IF devintr(kt.scause) # 0
             THEN [kt EXCEPT !.pc = "killed_chk", !.which_dev = devintr(kt.scause)]
             ELSE [kt EXCEPT !.pc = "killed_chk", !.killed = 1]
    /\ UNCHANGED otherKt

\* if killed(p) != 0 { exit(-1) }
UsertrapKilledChk ==
    /\ kt.pc = "killed_chk"
    /\ kt' = IF killed(kt) # 0 THEN kt_exit(kt, -1)
             ELSE [kt EXCEPT !.pc = IF kt.which_dev = 2 THEN "yield" ELSE "ret"]
    /\ UNCHANGED otherKt

\* yield_curr_proc() on a timer interrupt
UsertrapYield ==
    /\ kt.pc = "yield"
    /\ kt' = [kt EXCEPT !.pc = "ret"]
    /\ UNCHANGED otherKt

\* usertrapret(): back to user mode
Usertrapret ==
    /\ kt.pc = "ret"
    /\ kt' = [kt EXCEPT !.pc = "user", !.ret_killed = kt.killed]
    /\ UNCHANGED otherKt

\* setkilled() by another hart
KtSetkilled ==
    /\ kt.pc # "exited" /\ kt.killed = 0
    /\ kt' = [kt EXCEPT !.killed = 1]
    /\ UNCHANGED otherKt

\* ============================================= fs.rs: skipelem, namex, namei
\* Paths are byte slices: a MAXPATH buffer holding the string and NUL
\* padding (sysfile.rs), or the one-byte slice [b'/'] of userinit.
MAXPATH == 5
DIRSIZ == 2
ROOTINO == 1
CwdIno == 2
NextIno == 3
NoIno == 0
NUL == 0
Slash == 47
PathBytes == {Slash, 97, 98}
NoSubpath == -1

RECURSIVE Strings(_)
Strings(n) ==
    IF n = 0 THEN {<<>>}
    ELSE LET s == Strings(n - 1)
         IN  s \cup {Append(x, c) : x \in {y \in s : Len(y) = n - 1}, c \in PathBytes}

PadTo(s, n) == s \o [i \in 1 .. (n - Len(s)) |-> NUL]

\* the buffers the callers pass: argstr into [0; MAXPATH], and &[b'/']
PathBufs == {PadTo(s, MAXPATH) : s \in Strings(MAXPATH - 1)} \cup {<<Slash>>}

\* raw[i] with the source's indices from 0
At(raw, i) == raw[i + 1]

RECURSIVE SkipWhile(_, _, _)
\* while idx < raw.len() && raw[idx] is ('/' when slash, else a name byte)
SkipWhile(raw, idx, slash) ==
    IF idx < Len(raw)
       /\ (IF slash THEN At(raw, idx) = Slash
           ELSE At(raw, idx) # Slash /\ At(raw, idx) # NUL)
    THEN SkipWhile(raw, idx + 1, slash)
    ELSE idx

skipelem_len(first, last) == IF last - first > DIRSIZ THEN DIRSIZ ELSE last - first

skipelem(sb) ==
    IF sb.subpath = NoSubpath THEN sb
    ELSE LET first == SkipWhile(sb.raw, sb.subpath, TRUE)
             last == SkipWhile(sb.raw, first, FALSE)
         IN  IF first = Len(sb.raw) \/ At(sb.raw, first) = NUL
             THEN [raw |-> sb.raw, subpath |-> NoSubpath, name |-> <<0, 0>>]
             ELSE [raw |-> sb.raw, subpath |-> SkipWhile(sb.raw, last, TRUE),
                   name |-> <<first, skipelem_len(first, last)>>]

\* &raw[a..b]: panics unless a <= b <= raw.len()
SliceOk(raw, a, b) == a <= b /\ b <= Len(raw)
Slice(raw, a, b) == SubSeq(raw, a + 1, b)

\* dirlookup's dir_name: [0; DIRSIZ] with the name copied over its start;
\* clone_from_slice panics when the name is longer than DIRSIZ
DirNameOk(name) == Len(name) <= DIRSIZ
dir_name(name) == PadTo(name, DIRSIZ)

NxIdle ==
    [pc |-> "idle", raw |-> <<>>, parent |-> FALSE, start |-> NoIno,
     ip |-> NoIno, sb |-> [raw |-> <<>>, subpath |-> NoSubpath, name |-> <<0, 0>>],
     looked |-> <<>>, ret |-> NoIno, name |-> <<>>]

\* namei / nameiparent enter namex: the starting inode and the SubPath
Namex(raw, parent) ==
    /\ nx.pc = "idle"
    /\ nx' = [NxIdle EXCEPT
                !.pc = "loop", !.raw = raw, !.parent = parent,
                !.start = IF Len(raw) >= 1 /\ At(raw, 0) = Slash
                          THEN ROOTINO ELSE CwdIno,
                !.ip = IF Len(raw) >= 1 /\ At(raw, 0) = Slash
                       THEN ROOTINO ELSE CwdIno,
                !.sb = [raw |-> raw, subpath |-> 0, name |-> <<0, 0>>]]
    /\ UNCHANGED otherNx

\* the name nameiparent hands back: &path[subpath.name.0..subpath.name.1]
nameiparent_name(n, sb) ==
    IF SliceOk(n.raw, sb.name[1], sb.name[2])
    THEN [n EXCEPT !.pc = "done", !.ret = n.ip, !.sb = sb,
                   !.name = Slice(n.raw, sb.name[1], sb.name[2])]
    ELSE [n EXCEPT !.pc = "panic", !.sb = sb]

\* dirlookup(ip, &sb.raw[sb.name.0..sb.name.1 + 1], &mut 0)
namex_lookup(n, sb, found) ==
    IF ~SliceOk(n.raw, sb.name[1], sb.name[2] + 1)
    THEN [n EXCEPT !.pc = "panic", !.sb = sb]
    ELSE LET name == Slice(n.raw, sb.name[1], sb.name[2] + 1)
         IN  IF ~DirNameOk(name) THEN [n EXCEPT !.pc = "panic", !.sb = sb]
             ELSE IF found
             THEN [n EXCEPT !.sb = sb, !.ip = NextIno,
                            !.looked = Append(@, dir_name(name))]
             ELSE [n EXCEPT !.pc = "done", !.sb = sb, !.ret = NoIno,
                            !.looked = Append(@, dir_name(name))]

\* one turn of namex's loop
namex_loop(n, isdir, found) ==
    LET sb == skipelem(n.sb)
    IN  IF sb.subpath = NoSubpath
        THEN [n EXCEPT !.pc = "done", !.sb = sb,
                       !.ret = IF n.parent THEN NoIno ELSE n.ip]
        ELSE IF ~isdir THEN [n EXCEPT !.pc = "done", !.sb = sb, !.ret = NoIno]
        ELSE IF n.parent /\ sb.subpath >= Len(n.raw)
        THEN [n EXCEPT !.pc = "panic", !.sb = sb]
        ELSE IF n.parent /\ At(n.raw, sb.subpath) = NUL
        THEN nameiparent_name(n, sb)
        ELSE namex_lookup(n, sb, found)

NamexLoop(isdir, found) ==
    /\ nx.pc = "loop"
    /\ nx' = namex_loop(nx, isdir, found)
    /\ UNCHANGED otherNx

\* the caller takes the result: the inode, and nameiparent's name
NamexReturn ==
    /\ nx.pc = "done"
    /\ nx' = [NxIdle EXCEPT !.ret = nx.ret, !.name = nx.name]
    /\ UNCHANGED otherNx

\* =========================================== fs.rs: ialloc; sysfile.rs: create
\* The root directory (inode ROOTINO) and the on-disk inodes 1 .. NINODES-1.
\* bread is taken to return the buffer of the block it is asked for.
T_DIR == 1
DInos == 1 .. (NINODES - 1)
Names == {"f", "g"}
\* The inodes in use on the images the kernel is booted with (mkfs): the
\* root only, a hole at inode 2, all of the first inode block but its last
\* inode, and every inode.
BootImages == {{1}, {1, 3}, 1 .. (IPB - 2), DInos}

DSIZE == 64
\* bp.data[ino_sz * (inum % IPB) .. ino_sz * ((inum + 1) % IPB)]: a slice
\* whose start is past its end panics
dinode_slice(inum) == DSIZE * (inum % IPB) <= DSIZE * ((inum + 1) % IPB)

RECURSIVE ialloc_scan(_, _)
\* for inum in 1..SB.ninodes: the first inode with file_type == NO_TYPE
ialloc_scan(dtype, inum) ==
    IF inum >= NINODES THEN [kind |-> "none", inum |-> 0]
    ELSE IF ~dinode_slice(inum) THEN [kind |-> "panic", inum |-> inum]
    ELSE IF dtype[inum] = NO_TYPE THEN [kind |-> "some", inum |-> inum]
    ELSE ialloc_scan(dtype, inum + 1)

\* ialloc(dev, file_type) on the state a: the dinode is zeroed, typed and
\* its block passed to log_write
ialloc(a, file_type) ==
    LET r == ialloc_scan(a.dtype, 1) IN
    IF r.kind = "some"
    THEN [a EXCEPT !.alloc = "some", !.inum = r.inum,
                   !.dtype[r.inum] = file_type, !.dnlink[r.inum] = 0,
                   !.logged = @ \cup {IBLOCK(r.inum)}]
    ELSE IF r.kind = "none"
    THEN [a EXCEPT !.alloc = "fail", !.inum = 0]
    ELSE [a EXCEPT !.alloc = "panic", !.inum = r.inum, !.pc = "panic",
                   !.msg = "slice index starts past its end"]

\* create's de-allocation of ip: nlink = 0; iupdate; iunlockput frees it
create_dealloc(a) ==
    [a EXCEPT !.dtype[a.inum] = NO_TYPE, !.dnlink[a.inum] = 0,
              !.logged = @ \cup {IBLOCK(a.inum)},
              !.pc = "ret", !.ret = 0]

\* create, once ialloc has returned Some(ip)
create_link(a, name, file_type, dotok, dlok) ==
    LET a1 == [a EXCEPT !.dnlink[a.inum] = 1,
                        !.logged = @ \cup {IBLOCK(a.inum)}]
    IN  IF (file_type = T_DIR /\ ~dotok) \/ ~dlok THEN create_dealloc(a1)
        ELSE [a1 EXCEPT !.dents[name] = a.inum, !.pc = "ret", !.ret = a.inum]

\* create(path, file_type, major, minor) in the root directory
create(a, name, file_type, dotok, dlok) ==
    IF a.dents[name] # 0
    THEN [a EXCEPT !.pc = "ret",
                   !.ret = IF file_type = T_FILE /\ a.dtype[a.dents[name]] = T_FILE
                           THEN a.dents[name] ELSE 0]
    ELSE LET a1 == ialloc(a, file_type) IN
         IF a1.alloc = "panic" THEN a1
         ELSE IF a1.alloc = "fail" THEN [a1 EXCEPT !.pc = "ret", !.ret = 0]
         ELSE create_link(a1, name, file_type, dotok, dlok)

IaIdle ==
    [pc |-> "off", dtype |-> [i \in DInos |-> NO_TYPE],
     dnlink |-> [i \in DInos |-> 0], dents |-> [n \in Names |-> 0],
     logged |-> {}, alloc |-> "none", inum |-> 0, ret |-> 0, msg |-> None,
     name |-> "f", file_type |-> NO_TYPE]

\* the kernel comes up on an image
IaBoot(used) ==
    /\ ia.pc = "off"
    /\ ia' = [IaIdle EXCEPT
                !.pc = "idle",
                !.dtype = [i \in DInos |-> IF i = ROOTINO THEN T_DIR
                                           ELSE IF i \in used THEN T_FILE
                                           ELSE NO_TYPE],
                !.dnlink = [i \in DInos |-> IF i \in used THEN 1 ELSE 0]]
    /\ UNCHANGED otherIa

\* sys_open with O_CREATE / sys_mkdir: begin_op, create, end_op
Create(name, file_type, dotok, dlok) ==
    /\ ia.pc = "idle"
    /\ ia' = create([ia EXCEPT !.logged = {}, !.alloc = "none", !.inum = 0,
                               !.ret = 0, !.name = name,
                               !.file_type = file_type],
                    name, file_type, dotok, dlok)
    /\ UNCHANGED otherIa

\* the system call returns
CreateReturn ==
    /\ ia.pc = "ret"
    /\ ia' = [ia EXCEPT !.pc = "idle"]
    /\ UNCHANGED otherIa

\* ================================= vm.rs: walk, mappages, walkaddr, uvmunmap
\* A three-level page table whose pages hold PTE_SIZE entries of PXBITS
\* index bits each; frame f is the page at physical address f * PGSIZE.
PXBITS == 2
NVmFrames == 6
MaxVmCalls == 2
PGSHIFT == 12
PTE_V == 1
PTE_R == 2
PTE_W == 4
PTE_U == 16
PTE_FLAG_BITS == 10
RECURSIVE Pow2(_)
Pow2(k) == IF k = 0 THEN 1 ELSE 2 * Pow2(k - 1)
PTE_SIZE == Pow2(PXBITS)
MAXVA == Pow2(PXBITS + PXBITS + PXBITS + PGSHIFT - 1)
VFrames == 1 .. NVmFrames
VmRoot == 1
VPages == {n * PGSIZE : n \in 0 .. (MAXVA \div PGSIZE - 1)}

Bit(x, k) == (x \div Pow2(k)) % 2
RECURSIVE BitOrFrom(_, _, _)
BitOrFrom(a, b, k) ==
    IF k >= PTE_FLAG_BITS THEN 0
    ELSE (IF Bit(a, k) = 1 \/ Bit(b, k) = 1 THEN Pow2(k) ELSE 0)
         + BitOrFrom(a, b, k + 1)
\* a | b where b holds flag bits only: the bits of a above the flags stay
BitOr(a, b) == (a \div Pow2(PTE_FLAG_BITS)) * Pow2(PTE_FLAG_BITS) + BitOrFrom(a, b, 0)
\* x & flag for a one-bit flag
BitAnd(x, flag) == IF (x \div flag) % 2 = 1 THEN flag ELSE 0

PGROUNDDOWN(a) == a - (a % PGSIZE)
PA2PTE(pa) == (pa \div Pow2(PGSHIFT)) * Pow2(PTE_FLAG_BITS)
PTE2PA(pte) == (pte \div Pow2(PTE_FLAG_BITS)) * Pow2(PGSHIFT)
PTE_FLAGS(pte) == pte % Pow2(PTE_FLAG_BITS)
\* an index that ignores the level
PX_flat(level, va) == (va \div Pow2(PGSHIFT)) % PTE_SIZE
PX(level, va) == (va \div Pow2(PGSHIFT + PXBITS * level)) % PTE_SIZE

ZeroPage == [i \in 0 .. (PTE_SIZE - 1) |-> 0]

\* The result of walk: the page and index of the PTE, None, or the panic.
WalkEnd(v, kind, page, idx) == [v |-> v, kind |-> kind, page |-> page, idx |-> idx]

RECURSIVE walk_level(_, _, _, _, _)
\* the loop of walk over level 2 and level 1, then the level-0 entry
walk_level(v, cur, va, alloc, level) ==
    IF level = 0 THEN WalkEnd(v, "pte", cur, PX(0, va))
    ELSE LET pte == v.pt[cur][PX(level, va)] IN
         IF BitAnd(pte, PTE_V) = PTE_V
         THEN walk_level(v, PTE2PA(pte) \div PGSIZE, va, alloc, level - 1)
         ELSE IF alloc = 0 \/ v.free = <<>> THEN WalkEnd(v, "none", cur, 0)
         ELSE LET new == Head(v.free)
                  v1 == [v EXCEPT !.free = Tail(@),
                                  !.pt[new] = ZeroPage,
                                  !.pt[cur][PX(level, va)] =
                                      BitOr(PA2PTE(new * PGSIZE), PTE_V)]
              IN  walk_level(v1, new, va, alloc, level - 1)

walk(v, root, va, alloc) ==
    IF va >= MAXVA THEN WalkEnd(v, "panic", root, 0)
    ELSE walk_level(v, root, va, alloc, 2)

\* walkaddr: the physical address, or NoPa for None
NoPa == -1
walkaddr(v, root, va) ==
    IF va >= MAXVA THEN NoPa
    ELSE LET w == walk(v, root, va, 0) IN
         IF w.kind # "pte" THEN NoPa
         ELSE LET pte == v.pt[w.page][w.idx] IN
              IF BitAnd(pte, PTE_V) = 0 THEN NoPa
              ELSE IF BitAnd(pte, PTE_U) = 0 THEN NoPa
              ELSE PTE2PA(pte)

\* How a call ends: v, the return value and the panic message.
VmEnd(v, ret, msg) == [v |-> v, ret |-> ret, msg |-> msg]

RECURSIVE mappages_loop(_, _, _, _, _, _)
mappages_loop(v, root, a, last, pa, perm) ==
    LET w == walk(v, root, a, 1) IN
    IF w.kind = "panic" THEN VmEnd(w.v, 0, "walk")
    ELSE IF w.kind = "none" THEN VmEnd(w.v, -1, None)
    ELSE IF BitAnd(w.v.pt[w.page][w.idx], PTE_V) = 1
    THEN VmEnd(w.v, 0, "mappages: remap")
    ELSE LET v1 == [w.v EXCEPT !.pt[w.page][w.idx] =
                                  BitOr(PA2PTE(pa) + perm, PTE_V)]
         IN  IF a = last THEN VmEnd(v1, 0, None)
             ELSE mappages_loop(v1, root, a + PGSIZE, last, pa + PGSIZE, perm)

\* mappages(pagetable, va, pa, size, perm)
mappages_last(va, size) == PGROUNDDOWN(va + size - 1)
mappages(v, root, va, pa, size, perm) ==
    IF size = 0 THEN VmEnd(v, 0, "mappages: size")
    ELSE mappages_loop(v, root, PGROUNDDOWN(va), mappages_last(va, size), pa, perm)

\* KMEM.kfree(pa) on the frames of this model
vm_kfree(v, pa) ==
    IF pa % PGSIZE # 0 \/ pa \div PGSIZE \notin VFrames
    THEN VmEnd(v, 0, "kfree")
    ELSE VmEnd([v EXCEPT !.free = <<pa \div PGSIZE>> \o @], 0, None)

\* for a in (va..npages * PGSIZE).step_by(PGSIZE)
uvmunmap_range(va, npages) == npages * PGSIZE

\* the test that raises "uvmunmap: not mapped"
uvmunmap_not_mapped(pte) == BitAnd(pte, PTE_V) = 1

RECURSIVE uvmunmap_loop(_, _, _, _, _)
uvmunmap_loop(v, root, a, stop, do_free) ==
    IF a >= stop THEN VmEnd(v, 0, None)
    ELSE LET w == walk(v, root, a, 0) IN
         IF w.kind = "panic" THEN VmEnd(v, 0, "walk")
         ELSE IF w.kind = "none" THEN VmEnd(v, 0, "uvmunmap: walk")
         ELSE LET pte == v.pt[w.page][w.idx] IN
              IF uvmunmap_not_mapped(pte) THEN VmEnd(v, 0, "uvmunmap: not mapped")
              ELSE IF PTE_FLAGS(pte) = PTE_V THEN VmEnd(v, 0, "uvmunmap: not a leaf")
              ELSE LET f == IF do_free THEN vm_kfree(v, PTE2PA(pte))
                            ELSE VmEnd(v, 0, None)
                   IN  IF f.msg # None THEN f
                       ELSE uvmunmap_loop([f.v EXCEPT !.pt[w.page][w.idx] = 0],
                                          root, a + PGSIZE, stop, do_free)

\* uvmunmap(pagetable, va, npages, do_free)
uvmunmap(v, root, va, npages, do_free) ==
    IF va % PGSIZE # 0 THEN VmEnd(v, 0, "uvmunmap: not aligned")
    ELSE uvmunmap_loop(v, root, va, uvmunmap_range(va, npages), do_free)

\* ---- callers of the page table
VmVas == {0, PGSIZE, PTE_SIZE * PGSIZE, PTE_SIZE * PTE_SIZE * PGSIZE, MAXVA}
VmPas == {(NVmFrames - 1) * PGSIZE, NVmFrames * PGSIZE}
VmPerms == {BitOr(PTE_R, PTE_U), BitOr(PTE_R, PTE_W)}
VmNow == [pt |-> vm.pt, free |-> vm.free]
VmIdle == [call |-> "none", va |-> 0, pa |-> 0, size |-> 0, perm |-> 0,
           npages |-> 0, do_free |-> FALSE, ret |-> 0, msg |-> None]
\* the call that just ended, with its arguments
VmCall(call, va, pa, size, perm, npages, do_free, e) ==
    [call |-> call, va |-> va, pa |-> pa, size |-> size, perm |-> perm,
     npages |-> npages, do_free |-> do_free, ret |-> e.ret, msg |-> e.msg]

Mappages(va, pa, size, perm) ==
    /\ vm.pc = "idle"
    /\ vm.calls < MaxVmCalls
    /\ \E e \in {mappages(VmNow, VmRoot, va, pa, size, perm)} :
          vm' = [pc |-> IF e.msg # None THEN "panic" ELSE "ret",
                 pt |-> e.v.pt, free |-> e.v.free, calls |-> vm.calls + 1,
                 c |-> VmCall("mappages", va, pa, size, perm, 0, FALSE, e)]
    /\ UNCHANGED otherVm

Uvmunmap(va, npages, do_free) ==
    /\ vm.pc = "idle"
    /\ vm.calls < MaxVmCalls
    /\ \E e \in {uvmunmap(VmNow, VmRoot, va, npages, do_free)} :
          vm' = [pc |-> IF e.msg # None THEN "panic" ELSE "ret",
                 pt |-> e.v.pt, free |-> e.v.free, calls |-> vm.calls + 1,
                 c |-> VmCall("uvmunmap", va, 0, 0, 0, npages, do_free, e)]
    /\ UNCHANGED otherVm

VmReturn ==
    /\ vm.pc = "ret"
    /\ vm' = [vm EXCEPT !.pc = "idle"]
    /\ UNCHANGED otherVm

\* ================== vm.rs: uvmalloc, uvmdealloc, freewalk, uvmfree
PTE_X == 8

\* uvmdealloc(page_table, oldsz, newsz)
uvmdealloc(v, root, oldsz, newsz) ==
    IF newsz >= oldsz THEN VmEnd(v, oldsz, None)
    ELSE IF PGROUNDUP(newsz) < PGROUNDUP(oldsz)
    THEN LET u == uvmunmap(v, root, PGROUNDUP(newsz),
                           (PGROUNDUP(oldsz) - PGROUNDUP(newsz)) \div PGSIZE,
                           TRUE)
         IN  VmEnd(u.v, newsz, u.msg)
    ELSE VmEnd(v, newsz, None)

\* uvmalloc(page_table, oldsz, newsz, xperm).  The loop is
\* `for a in (0..newsz).step_by(PGSIZE)` and its body ends in
\* `uvmdealloc(page_table, a, oldsz); return 0;` on every path, so only the
\* turn a = 0 runs; mappages gets PGSIZE for pa and the frame's address
\* for size.
vm_uvmalloc(v, root, oldsz, newsz, xperm) ==
    IF newsz < oldsz THEN VmEnd(v, oldsz, None)
    ELSE IF newsz = 0 THEN VmEnd(v, newsz, None)
    ELSE LET old == PGROUNDUP(oldsz) IN
         IF v.free = <<>>
         THEN LET d == uvmdealloc(v, root, 0, old) IN VmEnd(d.v, 0, d.msg)
         ELSE LET frame == Head(v.free)
                  v1 == [v EXCEPT !.free = Tail(@), !.pt[frame] = ZeroPage]
                  m == mappages(v1, root, 0, PGSIZE, frame * PGSIZE,
                                BitOr(BitOr(PTE_R, PTE_U), xperm))
              IN  IF m.msg # None THEN m
                  ELSE LET k == IF m.ret # 0 THEN vm_kfree(m.v, frame * PGSIZE)
                                ELSE VmEnd(m.v, 0, None)
                           d == uvmdealloc(k.v, root, 0, old)
                       IN  IF k.msg # None THEN k ELSE VmEnd(d.v, 0, d.msg)

\* freewalk(pagetable) from entry idx of page on.  `pte.0 & PTE_V == 0` is
\* `(pte.0 & PTE_V) == 0`.
RECURSIVE freewalk_loop(_, _, _)
freewalk_loop(v, page, idx) ==
    IF idx = PTE_SIZE THEN vm_kfree(v, page * PGSIZE)
    ELSE LET pte == v.pt[page][idx] IN
         IF BitAnd(pte, PTE_V) = 0 THEN VmEnd(v, 0, "freewalk: leaf")
         ELSE IF /\ BitAnd(pte, PTE_V) = 0
                 /\ BitAnd(pte, PTE_R) = 0 /\ BitAnd(pte, PTE_W) = 0
                 /\ BitAnd(pte, PTE_X) = 0
         THEN LET c == freewalk_loop(v, PTE2PA(pte) \div PGSIZE, 0) IN
              IF c.msg # None THEN c
              ELSE freewalk_loop([c.v EXCEPT !.pt[page][idx] = 0], page, idx + 1)
         ELSE freewalk_loop(v, page, idx + 1)

freewalk(v, page) == freewalk_loop(v, page, 0)

\* uvmfree(pagetable, sz)
uvmfree(v, root, sz) ==
    IF sz > 0
    THEN LET u == uvmunmap(v, root, 0, PGROUNDUP(sz) \div PGSIZE, TRUE) IN
         IF u.msg # None THEN u ELSE freewalk(u.v, root)
    ELSE freewalk(v, root)

\* ---- callers: a user image of up to two pages is mapped, grown, freed
UvmSizes == {0, PGSIZE, 2 * PGSIZE}

\* the call record of uvmalloc keeps oldsz in va, newsz in size, xperm in
\* perm; that of uvmfree keeps sz in size
Uvmalloc(oldsz, newsz, xperm) ==
    /\ vm.pc = "idle"
    /\ vm.calls < MaxVmCalls
    /\ \E e \in {vm_uvmalloc(VmNow, VmRoot, oldsz, newsz, xperm)} :
          vm' = [pc |-> IF e.msg # None THEN "panic" ELSE "ret",
                 pt |-> e.v.pt, free |-> e.v.free, calls |-> vm.calls + 1,
                 c |-> VmCall("uvmalloc", oldsz, 0, newsz, xperm, 0, FALSE, e)]
    /\ UNCHANGED otherVm

Uvmfree(sz) ==
    /\ vm.pc = "idle"
    /\ vm.calls < MaxVmCalls
    /\ \E e \in {uvmfree(VmNow, VmRoot, sz)} :
          vm' = [pc |-> IF e.msg # None THEN "panic" ELSE "ret",
                 pt |-> e.v.pt, free |-> e.v.free, calls |-> vm.calls + 1,
                 c |-> VmCall("uvmfree", 0, 0, sz, 0, 0, FALSE, e)]
    /\ UNCHANGED otherVm

\* ===================== log.rs: begin_op, log_write, end_op among processes
\* The in-memory LOG as NLw processes use it.  Each critical section under
\* LOG.lock is one step; commit() runs without the lock.  The disk side of
\* commit() is the log section above; here a block read returns its buffer.
NLw == 3
LwProcs == 1 .. NLw
LwLog == [n |-> 0, block |-> NoBlocks, size |-> NLOG, outstanding |-> 0,
          committing |-> 0]
LwNoPins == [b \in BlockNos |-> 0]

\* begin_op's two reasons to sleep
begin_op_no_committing(L) == FALSE
begin_op_committing(L) == L.committing # 0
begin_op_always_space(L) == FALSE
begin_op_nospace(L) == L.n + (L.outstanding + 1) * MAXOPBLOCKS > LOGSIZE

\* wakeup(&LOG): every process sleeping on &LOG becomes runnable
lw_wakeup_none(pcs) == pcs
lw_wakeup(pcs) == [q \in DOMAIN pcs |-> IF pcs[q] = "sleep" THEN "woken" ELSE pcs[q]]

\* log_write(b) on LOG as L with the pins taken since the last commit
lw_log_write(L, pins, blockno) ==
    IF L.n >= LOGSIZE \/ L.n >= L.size - 1
    THEN [L |-> L, pins |-> pins, msg |-> "too big a transaction"]
    ELSE IF L.outstanding < 1
    THEN [L |-> L, pins |-> pins, msg |-> "log_write outside of trans"]
    ELSE LET idx == log_write_idx(L, blockno, 0)
             L1 == [L EXCEPT !.block[idx] = blockno]
         IN  IF idx = L.n
             THEN [L |-> [L1 EXCEPT !.n = @ + 1],
                   pins |-> [pins EXCEPT ![blockno] = @ + 1], msg |-> None]
             ELSE [L |-> L1, pins |-> pins, msg |-> None]

\* one turn of begin_op's loop, from the call or after sleep returns
LwBeginOp(p) ==
    /\ lw.msg = None
    /\ lw.pc[p] \in {"idle", "woken"}
    /\ IF begin_op_committing(lw.L) \/ begin_op_nospace(lw.L)
       THEN lw' = [lw EXCEPT !.pc[p] = "sleep"]
       ELSE lw' = [lw EXCEPT !.pc[p] = "op", !.L.outstanding = @ + 1]
    /\ UNCHANGED otherLw

LwLogWrite(p, blockno) ==
    /\ lw.msg = None
    /\ lw.pc[p] = "op"
    /\ \E r \in {lw_log_write(lw.L, lw.pins, blockno)} :
          lw' = [lw EXCEPT !.L = r.L, !.pins = r.pins, !.msg = r.msg,
                           !.passed = IF r.msg = None THEN @ \cup {blockno} ELSE @,
                           !.pc[p] = IF r.msg = None THEN @ ELSE "panic"]
    /\ UNCHANGED otherLw

\* end_op up to the release of LOG.lock
LwEndOp(p) ==
    /\ lw.msg = None
    /\ lw.pc[p] = "op"
    /\ IF lw.L.committing # 0
       THEN lw' = [lw EXCEPT !.L.outstanding = @ - 1, !.pc[p] = "panic",
                             !.msg = "log.committing"]
       ELSE IF lw.L.outstanding - 1 = 0
       THEN lw' = [lw EXCEPT !.L.outstanding = @ - 1, !.L.committing = 1,
                             !.pc[p] = "commit"]
       ELSE lw' = [lw EXCEPT !.L.outstanding = @ - 1,
                             !.pc = lw_wakeup([@ EXCEPT ![p] = "idle"])]
    /\ UNCHANGED otherLw

\* commit(), called without the lock
LwCommit(p) ==
    /\ lw.msg = None
    /\ lw.pc[p] = "commit"
    /\ lw' = [lw EXCEPT !.L.n = 0, !.pins = LwNoPins, !.passed = {},
                        !.pc[p] = "committed"]
    /\ UNCHANGED otherLw

\* the end of end_op: committing = 0 and wakeup under the lock
LwEndCommit(p) ==
    /\ lw.msg = None
    /\ lw.pc[p] = "committed"
    /\ lw' = [lw EXCEPT !.L.committing = 0,
                        !.pc = lw_wakeup([@ EXCEPT ![p] = "idle"])]
    /\ UNCHANGED otherLw

\* ============================ proc.rs, sysproc.rs: the calls on the harts
\* fork, exit, wait, setkilled and killed by process threads over the
\* spinlocks, next to the schedulers.  PROCS[1] is INIT_PROC (userinit
\* takes the first slot); the other slots start UNUSED.  The locks of
\* the allocators and of the file system taken inside these calls
\* (PID_LOCK, KMEM, FTABLE, ITABLE) are leaves and are left out; fsinit is
\* counted, not run.
MaxOps == 5
KNoProc == "0"
KInit == PROCS[1]
KProcAddr(p) == <<"proc", p>>
KInitStatic == <<"static", "INIT_PROC">>
sysNoPk == <<xv, km, pp, wt, fk, cl, iv, kt, nx, ia, vm, lw, it, ft, vd>>
otherK == <<hartVars, bioVars, logVars, sysNoPk>>

KStart(p) == Runs(p) /\ th[p].pc = "idle" /\ pk.ops < MaxOps
KAt(p, pc) == Runs(p) /\ th[p].pc = pc

\* ---- forkret (proc.rs:334-349)
\* `const FIRST: AtomicBool = AtomicBool::new(true)`: a const item is
\* instantiated afresh at every place it is named, so the load reads a
\* new AtomicBool(true) and the store writes to another one.
FIRST == TRUE

\* my_proc.lock.release()
KForkret(p) ==
    /\ KAt(p, "forkret")
    /\ Rel(p, PLock(p), "forkret_load", th)
    /\ UNCHANGED <<procs, sch, work, slp, pk, otherK>>

\* if FIRST.load(..)
KForkretLoad(p) ==
    /\ KAt(p, "forkret_load")
    /\ th' = [th EXCEPT ![p].pc = IF FIRST THEN "forkret_store" ELSE "idle"]
    /\ UNCHANGED <<cpus, locks, procs, sch, work, slp, pk, otherK>>

\* FIRST.store(false, ..); fs::fsinit(ROOTDEV); then usertrapret()
KForkretFsinit(p) ==
    /\ KAt(p, "forkret_store")
    /\ pk' = [pk EXCEPT !.fsinit = @ + 1,
                        !.fsinit_by = @ \cup {<<p, pk.pid[p]>>}]
    /\ th' = [th EXCEPT ![p].pc = "idle"]
    /\ UNCHANGED <<cpus, locks, procs, sch, work, slp, otherK>>

\* ---- fork (sysproc.rs:29-86) with allocproc (proc.rs:355-392)
KForkCall(p) ==
    /\ KStart(p)
    /\ pk' = [pk EXCEPT !.ops = @ + 1, !.i[p] = 1, !.np[p] = KNoProc]
    /\ th' = [th EXCEPT ![p].pc = "alloc_acq"]
    /\ UNCHANGED <<cpus, locks, procs, sch, work, slp, otherK>>

\* allocproc's loop head: p.lock.acquire(), or None past the table
KAllocAcq(p) ==
    /\ KAt(p, "alloc_acq")
    /\ IF pk.i[p] > Len(PROCS)
       THEN /\ th' = [th EXCEPT ![p].pc = "idle"]
            /\ UNCHANGED cpus
       ELSE AcqCall(p, PLock(PROCS[pk.i[p]]), "alloc_chk")
    /\ UNCHANGED <<locks, procs, sch, work, slp, pk, otherK>>

\* freeproc(p): the fields the calls read
kfreeproc(ps, q) == [ps EXCEPT ![q] = [state |-> "UNUSED", chan |-> NoChan]]
kfreeproc_pk(k, q) ==
    [k EXCEPT !.parent[q] = KNoProc, !.killed[q] = 0, !.pid[q] = 0]

\* if p.state == UNUSED { inner_alloc } else { p.lock.release() }.  ok is
\* whether the trapframe, the page table and uvmcopy all get their memory;
\* without it fork frees the slot, releases np.lock and returns None.
KAllocChk(p, ok) ==
    LET q == PROCS[pk.i[p]] IN
    /\ KAt(p, "alloc_chk")
    /\ IF procs[q].state # "UNUSED"
       THEN /\ Rel(p, PLock(q), "alloc_acq", th)
            /\ pk' = IF release_panic(cpus, locks, PLock(q), CpuOf(p)) = None
                     THEN [pk EXCEPT !.i[p] = @ + 1] ELSE pk
            /\ UNCHANGED procs
       ELSE IF ok
       THEN /\ procs' = [procs EXCEPT ![q].state = "USED"]
            /\ pk' = [pk EXCEPT !.np[p] = q, !.pid[q] = pk.next_pid,
                                !.next_pid = @ + 1]
            /\ th' = [th EXCEPT ![p].pc = "fork_rel"]
            /\ UNCHANGED <<cpus, locks>>
       ELSE /\ Rel(p, PLock(q), "idle", th)
            /\ pk' = [pk EXCEPT !.next_pid = @ + 1]
            /\ UNCHANGED procs
    /\ UNCHANGED <<sch, work, slp, otherK>>

\* np.lock.release()
KForkRel(p) ==
    /\ KAt(p, "fork_rel")
    /\ Rel(p, PLock(pk.np[p]), "fork_wl", th)
    /\ UNCHANGED <<procs, sch, work, slp, pk, otherK>>

\* WAIT_LOCK.acquire()
KForkWl(p) ==
    /\ KAt(p, "fork_wl")
    /\ AcqCall(p, WAIT_LOCK, "fork_parent")
    /\ UNCHANGED <<locks, procs, sch, work, slp, pk, otherK>>

\* np.parent = Some(p); WAIT_LOCK.release()
KForkParent(p) ==
    /\ KAt(p, "fork_parent")
    /\ Rel(p, WAIT_LOCK, "fork_np", th)
    /\ pk' = IF release_panic(cpus, locks, WAIT_LOCK, CpuOf(p)) = None
             THEN [pk EXCEPT !.parent[pk.np[p]] = p] ELSE pk
    /\ UNCHANGED <<procs, sch, work, slp, otherK>>

\* np.lock.acquire()
KForkNp(p) ==
    /\ KAt(p, "fork_np")
    /\ AcqCall(p, PLock(pk.np[p]), "fork_run")
    /\ UNCHANGED <<locks, procs, sch, work, slp, pk, otherK>>

\* np.state = RUNNABLE; np.lock.release().  The child's context starts
\* at forkret (allocproc set context.ra).
KForkRun(p) ==
    LET q == pk.np[p] IN
    /\ KAt(p, "fork_run")
    /\ Rel(p, PLock(q), "idle", [th EXCEPT ![q] = InitThread])
    /\ procs' = IF release_panic(cpus, locks, PLock(q), CpuOf(p)) = None
                THEN [procs EXCEPT ![q].state = "RUNNABLE"] ELSE procs
    /\ UNCHANGED <<sch, work, slp, pk, otherK>>

\* ---- exit (proc.rs:620-664)
\* The two locks exit takes, in the order it takes them.
exit_order_swapped(p) == <<PLock(p), WAIT_LOCK>>

exit_order(p) == <<WAIT_LOCK, PLock(p)>>

\* `panic!("init exiting")`, or (files and cwd put) WAIT_LOCK.acquire()
KExitCall(p) ==
    /\ KStart(p)
    /\ pk' = [pk EXCEPT !.ops = @ + 1, !.i[p] = 1]
    /\ IF p = KInit
       THEN /\ th' = [th EXCEPT ![p].panic = "init exiting"]
            /\ UNCHANGED cpus
       ELSE AcqCall(p, exit_order(p)[1], "exit_reparent")
    /\ UNCHANGED <<locks, procs, sch, work, slp, otherK>>

\* reparent(p), one turn of its loop; after it wakeup(p.parent.unwrap())
KExitReparent(p) ==
    LET i == pk.i[p] IN
    /\ KAt(p, "exit_reparent")
    /\ IF i > Len(PROCS)
       THEN /\ th' = [th EXCEPT ![p].pc = "wakeup", ![p].widx = 1,
                                ![p].wchan = KProcAddr(pk.parent[p]),
                                ![p].wret = "exit_lock"]
            /\ UNCHANGED pk
       ELSE IF pk.parent[PROCS[i]] = p
       THEN /\ th' = [th EXCEPT ![p].pc = "wakeup", ![p].widx = 1,
                                ![p].wchan = KInitStatic,
                                ![p].wret = "exit_reparent"]
            /\ pk' = [pk EXCEPT !.parent[PROCS[i]] = KInit, !.i[p] = i + 1]
       ELSE /\ pk' = [pk EXCEPT !.i[p] = i + 1]
            /\ UNCHANGED th
    /\ UNCHANGED <<cpus, locks, procs, sch, work, slp, otherK>>

\* p.lock.acquire()
KExitLock(p) ==
    /\ KAt(p, "exit_lock")
    /\ AcqCall(p, exit_order(p)[2], "exit_zombie")
    /\ UNCHANGED <<locks, procs, sch, work, slp, pk, otherK>>

\* p.xstate = status; p.state = ZOMBIE; WAIT_LOCK.release()
KExitZombie(p) ==
    /\ KAt(p, "exit_zombie")
    /\ Rel(p, WAIT_LOCK, "exit_sched", th)
    /\ procs' = [procs EXCEPT ![p].state = "ZOMBIE"]
    /\ UNCHANGED <<sch, work, slp, pk, otherK>>

\* sched(); panic!("zombie exit")
KExitSched(p) ==
    /\ KAt(p, "exit_sched")
    /\ SchedSwtch(p, procs, "zombie exit")
    /\ UNCHANGED <<cpus, locks, work, slp, pk, otherK>>

\* ---- wait (proc.rs:668-725)
\* WAIT_LOCK.acquire(); let mut havekids = false
KWaitCall(p) ==
    /\ KStart(p)
    /\ pk' = [pk EXCEPT !.ops = @ + 1, !.i[p] = 1, !.havekids[p] = FALSE]
    /\ AcqCall(p, WAIT_LOCK, "wait_scan")
    /\ UNCHANGED <<locks, procs, sch, work, slp, otherK>>

\* The for loop's head: pp.lock.acquire() on a child, the next slot, or
\* past the table the test after the loop.
KWaitScan(p) ==
    LET i == pk.i[p] IN
    /\ KAt(p, "wait_scan")
    /\ IF i > Len(PROCS)
       THEN /\ th' = [th EXCEPT ![p].pc = "wait_decide"]
            /\ UNCHANGED <<cpus, pk>>
       ELSE IF pk.parent[PROCS[i]] = p
       THEN /\ AcqCall(p, PLock(PROCS[i]), "wait_chk")
            /\ UNCHANGED pk
       ELSE /\ pk' = [pk EXCEPT !.i[p] = i + 1]
            /\ UNCHANGED <<cpus, th>>
    /\ UNCHANGED <<locks, procs, sch, work, slp, otherK>>

\* havekids = true; a ZOMBIE child is freed (freeproc; pp.lock.release()),
\* another one is released and the scan goes on.
KWaitChk(p) ==
    LET q == PROCS[pk.i[p]]
        rel == release_panic(cpus, locks, PLock(q), CpuOf(p)) = None IN
    /\ KAt(p, "wait_chk")
    /\ IF procs[q].state = "ZOMBIE"
       THEN /\ Rel(p, PLock(q), "wait_ret", th)
            /\ procs' = IF rel THEN kfreeproc(procs, q) ELSE procs
            /\ pk' = IF rel
                     THEN [kfreeproc_pk(pk, q) EXCEPT !.havekids[p] = TRUE]
                     ELSE pk
       ELSE /\ Rel(p, PLock(q), "wait_scan", th)
            /\ pk' = IF rel
                     THEN [pk EXCEPT !.havekids[p] = TRUE, !.i[p] = @ + 1]
                     ELSE pk
            /\ UNCHANGED procs
    /\ UNCHANGED <<sch, work, slp, otherK>>

\* WAIT_LOCK.release(); return
KWaitRet(p) ==
    /\ KAt(p, "wait_ret")
    /\ Rel(p, WAIT_LOCK, "idle", th)
    /\ UNCHANGED <<procs, sch, work, slp, pk, otherK>>

\* if !havekids || killed(p) != 0: killed takes p.lock
KWaitDecide(p) ==
    /\ KAt(p, "wait_decide")
    /\ IF ~pk.havekids[p]
       THEN /\ th' = [th EXCEPT ![p].pc = "wait_ret"]
            /\ UNCHANGED cpus
       ELSE AcqCall(p, PLock(p), "wait_killed")
    /\ UNCHANGED <<locks, procs, sch, work, slp, pk, otherK>>

\* killed: let k = p.killed; p.lock.release()
KWaitKilled(p) ==
    /\ KAt(p, "wait_killed")
    /\ Rel(p, PLock(p), IF pk.killed[p] # 0 THEN "wait_ret" ELSE "wait_sleep",
           th)
    /\ UNCHANGED <<procs, sch, work, slp, pk, otherK>>

\* sleep(p, &mut WAIT_LOCK)
KWaitSleep(p) ==
    /\ KAt(p, "wait_sleep")
    /\ SleepCall(p, KProcAddr(p), WAIT_LOCK, "wait_loop")
    /\ UNCHANGED <<locks, procs, sch, work, slp, pk, otherK>>

\* sleep returned: the outer loop's next turn
KWaitLoop(p) ==
    /\ KAt(p, "wait_loop")
    /\ th' = [th EXCEPT ![p].pc = "wait_scan"]
    /\ pk' = [pk EXCEPT !.i[p] = 1]
    /\ UNCHANGED <<cpus, locks, procs, sch, work, slp, otherK>>

\* ---- setkilled (proc.rs:209-213), as usertrap calls it on myproc()
KSetkilled(p) ==
    /\ KStart(p) /\ pk.killed[p] = 0
    /\ pk' = [pk EXCEPT !.ops = @ + 1]
    /\ AcqCall(p, PLock(p), "setkilled")
    /\ UNCHANGED <<locks, procs, sch, work, slp, otherK>>

KSetkilledRel(p) ==
    /\ KAt(p, "setkilled")
    /\ Rel(p, PLock(p), "idle", th)
    /\ pk' = IF release_panic(cpus, locks, PLock(p), CpuOf(p)) = None
             THEN [pk EXCEPT !.killed[p] = 1] ELSE pk
    /\ UNCHANGED <<procs, sch, work, slp, otherK>>

\* ---- a timer interrupt in user space: proc_yield
KYieldCall(p) ==
    /\ KStart(p)
    /\ pk' = [pk EXCEPT !.ops = @ + 1]
    /\ AcqCall(p, PLock(p), "yield_sched")
    /\ UNCHANGED <<locks, procs, sch, work, slp, otherK>>

\* ---- a caller of sleep that holds a second spinlock
KNestOuter(p) ==
    /\ KStart(p)
    /\ pk' = [pk EXCEPT !.ops = @ + 1]
    /\ AcqCall(p, SLK, "nest_inner")
    /\ UNCHANGED <<locks, procs, sch, work, slp, otherK>>

KNestInner(p) ==
    /\ KAt(p, "nest_inner")
    /\ AcqCall(p, LK, "nest_sleep")
    /\ UNCHANGED <<locks, procs, sch, work, slp, pk, otherK>>

KNestSleep(p) ==
    /\ KAt(p, "nest_sleep")
    /\ SleepCall(p, QueueChan, LK, "idle")
    /\ UNCHANGED <<locks, procs, sch, work, slp, pk, otherK>>

\* ================================== fs.rs: the inode table (iget/idup/iput)
\* NINODE entries of ITABLE, ItProcs callers.  Every call runs under
\* ITABLE.lock, so it is one step, except the iput that frees the inode:
\* that one drops ITABLE.lock around itrunc and iupdate.  `hold` is the
\* references each caller has in hand (only those may be passed to idup,
\* ilock and iput); got and put count the calls per entry.
NINODE == 2
MaxItOps == 5
ItProcs == {1, 2}
ItEntries == 1 .. NINODE
ItKeys == {<<1, 1>>, <<1, 2>>, <<2, 1>>}
ItNone == 0

NewItEntry == [dev |-> 0, inum |-> 0, ref_cnt |-> 0, valid |-> FALSE,
               nlink |-> 0, slk |-> ItNone]

ItIdle(p) == it.msg = None /\ it.pc[p] = ItNone
ItStart(p) == ItIdle(p) /\ it.ops < MaxItOps

\* iget's test for a cached entry
iget_match_inum(ip, dev, inum) == ip.ref_cnt > 0 /\ ip.inum = inum

iget_match(ip, dev, inum) == ip.ref_cnt > 0 /\ ip.dev = dev /\ ip.inum = inum

\* iget's loop from entry i on: the cached entry, else the first entry
\* with ref_cnt == 0 the loop passed (empty), else ItNone.
RECURSIVE iget_scan(_, _, _, _, _)
iget_scan(tab, dev, inum, i, empty) ==
    IF i > NINODE THEN [hit |-> FALSE, e |-> empty]
    ELSE IF iget_match(tab[i], dev, inum) THEN [hit |-> TRUE, e |-> i]
    ELSE iget_scan(tab, dev, inum, i + 1,
                   IF empty = ItNone /\ tab[i].ref_cnt = 0 THEN i ELSE empty)

\* iget(dev, inum) by p
it_iget(t, p, dev, inum) ==
    LET r == iget_scan(t.inode, dev, inum, 1, ItNone)
        t0 == [t EXCEPT !.ops = @ + 1,
                        !.op = [name |-> "iget", key |-> <<dev, inum>>,
                                ret |-> r.e]] IN
    IF r.hit
    THEN [t0 EXCEPT !.inode[r.e].ref_cnt = @ + 1,
                    !.hold[p][r.e] = @ + 1, !.got[r.e] = @ + 1]
    ELSE IF r.e = ItNone
    THEN [t0 EXCEPT !.msg = "iget: no inodes"]
    ELSE [t0 EXCEPT !.inode[r.e] = [@ EXCEPT !.dev = dev, !.inum = inum,
                                             !.ref_cnt = 1, !.valid = FALSE],
                    !.hold[p][r.e] = @ + 1, !.got[r.e] = @ + 1]

ItIget(p, dev, inum) ==
    /\ ItStart(p)
    /\ it' = it_iget(it, p, dev, inum)
    /\ UNCHANGED otherIt

\* idup(): ref_cnt += 1
ItIdup(p, e) ==
    /\ ItStart(p) /\ it.hold[p][e] > 0
    /\ it' = [it EXCEPT !.ops = @ + 1,
                        !.op = [name |-> "idup", key |-> <<0, 0>>, ret |-> e],
                        !.inode[e].ref_cnt = @ + 1,
                        !.hold[p][e] = @ + 1, !.got[e] = @ + 1]
    /\ UNCHANGED otherIt

\* ilock(); iunlock(): an entry not yet valid is read from the disk, whose
\* copy has nlink links.
ItIlock(p, e, nlink) ==
    /\ ItStart(p) /\ it.hold[p][e] > 0 /\ it.inode[e].slk = ItNone
    /\ ~it.inode[e].valid
    /\ it' = [it EXCEPT !.ops = @ + 1,
                        !.op = [name |-> "ilock", key |-> <<0, 0>>, ret |-> e],
                        !.inode[e].valid = TRUE, !.inode[e].nlink = nlink,
                        !.reads = @ + 1]
    /\ UNCHANGED otherIt

\* iput(): the last reference to a valid inode without links frees it
it_iput_last(ip) == ip.ref_cnt = 1 /\ ip.valid /\ ip.nlink = 0

\* iput() up to `ITABLE.lock.release()` before itrunc, or all of it
ItIput(p, e) ==
    /\ ItStart(p) /\ it.hold[p][e] > 0
    /\ LET t0 == [it EXCEPT !.ops = @ + 1,
                            !.op = [name |-> "iput", key |-> <<0, 0>>,
                                    ret |-> e]] IN
       it' = IF it_iput_last(it.inode[e])
             THEN [t0 EXCEPT !.inode[e].slk = p, !.pc[p] = e]
             ELSE [t0 EXCEPT !.inode[e].ref_cnt = @ - 1,
                             !.hold[p][e] = @ - 1, !.put[e] = @ + 1]
    /\ UNCHANGED otherIt

\* itrunc(); file_type = NO_TYPE; iupdate(); valid = false;
\* release_sleep(); ITABLE.lock.acquire(); ref_cnt -= 1; release
ItIputEnd(p) ==
    LET e == it.pc[p] IN
    /\ it.msg = None /\ e # ItNone
    /\ it' = [it EXCEPT !.inode[e].valid = FALSE, !.inode[e].slk = ItNone,
                        !.inode[e].ref_cnt = @ - 1,
                        !.hold[p][e] = @ - 1, !.put[e] = @ + 1,
                        !.pc[p] = ItNone]
    /\ UNCHANGED otherIt

\* ============== file.rs, sysfile.rs, sysproc.rs, proc.rs: files among processes
\* FTABLE and the descriptor table of every process, under open, dup, close,
\* fork and exit.
FtProcs == {1, 2}
FtInit == 1

\* the calling process's view: its ofile and the shared table
FtView(p, call, a) ==
    [ofile |-> ft.ofile[p], file |-> ft.file, iput |-> ft.iput,
     call |-> call, arg |-> a, fd |-> -1, f |-> CNone, ret |-> 0,
     msg |-> ft.msg]

FtBack(p, r) ==
    [ft EXCEPT !.ofile[p] = r.ofile, !.file = r.file, !.iput = r.iput,
               !.call = r.call, !.arg = r.arg, !.p = p, !.ret = r.ret,
               !.msg = r.msg]

FtOpen(p) ==
    /\ ft.msg = None
    /\ p \in ft.alive
    /\ ft' = FtBack(p, sys_open_file(FtView(p, "open", 0)))
    /\ UNCHANGED otherFt

FtDup(p, a) ==
    /\ ft.msg = None
    /\ p \in ft.alive
    /\ ft' = FtBack(p, sys_dup(FtView(p, "dup", a), a))
    /\ UNCHANGED otherFt

FtClose(p, a) ==
    /\ ft.msg = None
    /\ p \in ft.alive
    /\ ft' = FtBack(p, sys_close(FtView(p, "close", a), a))
    /\ UNCHANGED otherFt

\* fork: filedup(f); np.ofile[i] = Some(f) for every open descriptor i
RECURSIVE fork_files(_, _, _, _)
fork_files(t, p, np, i) ==
    IF i = NOFILE \/ t.msg # None THEN t
    ELSE IF t.ofile[p][i] = CNone THEN fork_files(t, p, np, i + 1)
    ELSE LET f == t.ofile[p][i]
             t1 == filedup(t, f) IN
         IF t1.msg # None THEN t1
         ELSE fork_files([t1 EXCEPT !.ofile[np][i] = f], p, np, i + 1)

FtFork(p, np) ==
    /\ ft.msg = None
    /\ p \in ft.alive
    /\ np \notin ft.alive
    /\ ft' = [fork_files(ft, p, np, 0) EXCEPT
                 !.alive = @ \cup {np}, !.call = "fork", !.arg = np, !.p = p,
                 !.ret = np]
    /\ UNCHANGED otherFt

\* exit: fileclose(f); p.ofile[fd] = None for every open descriptor fd
RECURSIVE exit_files(_, _, _)
exit_files(t, p, fd) ==
    IF fd = NOFILE \/ t.msg # None THEN t
    ELSE IF t.ofile[p][fd] = CNone THEN exit_files(t, p, fd + 1)
    ELSE LET t1 == fileclose(t, t.ofile[p][fd]) IN
         IF t1.msg # None THEN t1
         ELSE exit_files([t1 EXCEPT !.ofile[p][fd] = CNone], p, fd + 1)

FtExit(p) ==
    /\ ft.msg = None
    /\ p \in ft.alive
    /\ ft' = IF p = FtInit
             THEN [ft EXCEPT !.msg = "init exiting", !.call = "exit", !.p = p]
             ELSE [exit_files(ft, p, 0) EXCEPT
                      !.alive = @ \ {p}, !.call = "exit", !.arg = 0, !.p = p,
                      !.ret = 0]
    /\ UNCHANGED otherFt

\* ===================================== virtio_disk.rs: descriptors and requests
\* The driver's book-keeping (DISK.free, DISK.desc, DISK.info, the avail and
\* used rings) under virtio_disk_rw calls of several processes, the device
\* and its interrupt.  DISK.vdisk_lock is held from the entry of
\* virtio_disk_rw and of virtio_disk_intr to their sleep or return, so each
\* action is one such stretch.
NUM == 8
VRING_DESC_F_NEXT == 1
VRING_DESC_F_WRITE == 2
MaxDiskReqs == 4
VdProcs == {1, 2}
Descs == 0 .. (NUM - 1)
NoDesc == NUM
NoBuf == 0
NewDesc == [flags |-> 0, next |-> 0]

\* wakeup(&DISK.free[0]): the sleepers of the descriptor loop (they sleep
\* on &DISK.free, which is the same address)
wakeup_free(dk) ==
    [dk EXCEPT !.pc = [p \in VdProcs |->
                          IF dk.pc[p] = "sleepfree" THEN "retry" ELSE dk.pc[p]]]

\* alloc_desc(): the first free descriptor, marked non-free; NoDesc for None
alloc_desc_idx(dk) ==
    LET free == {i \in Descs : dk.free[i]} IN
    IF free = {} THEN NoDesc ELSE CHOOSE i \in free : \A j \in free : i <= j

alloc_desc(dk) ==
    IF alloc_desc_idx(dk) = NoDesc THEN dk
    ELSE [dk EXCEPT !.free[alloc_desc_idx(dk)] = FALSE]

free_desc(dk, i) ==
    IF i >= NUM THEN [dk EXCEPT !.msg = "free_desc 1"]
    ELSE IF dk.free[i] THEN [dk EXCEPT !.msg = "free_desc 2"]
    ELSE wakeup_free([dk EXCEPT !.desc[i] = NewDesc, !.free[i] = TRUE])

\* free_desc(idx[j]) for j in 0..i
RECURSIVE free_descs(_, _)
free_descs(dk, idx) ==
    IF idx = <<>> \/ dk.msg # None THEN dk
    ELSE free_descs(free_desc(dk, Head(idx)), Tail(idx))

\* alloc3_desc(): dk.got is Some(idx), or <<>> for None
RECURSIVE alloc3_desc_loop(_, _)
alloc3_desc_loop(dk, idx) ==
    IF Len(idx) = 3 THEN [dk EXCEPT !.got = idx]
    ELSE IF alloc_desc_idx(dk) = NoDesc
    THEN [free_descs(dk, idx) EXCEPT !.got = <<>>]
    ELSE alloc3_desc_loop(alloc_desc(dk), Append(idx, alloc_desc_idx(dk)))

alloc3_desc(dk) == alloc3_desc_loop(dk, <<>>)

\* free_chain(i): `flag & VRING_DESC_F_NEXT != 0` is
\* `(flag & VRING_DESC_F_NEXT) != 0`
free_chain_break(flag) == BitAnd(flag, VRING_DESC_F_NEXT) # 0

RECURSIVE free_chain(_, _)
free_chain(dk, i) ==
    LET flag == IF i \in Descs THEN dk.desc[i].flags ELSE 0
        nxt == IF i \in Descs THEN dk.desc[i].next ELSE 0
        d1 == free_desc(dk, i) IN
    IF d1.msg # None THEN d1
    ELSE IF free_chain_break(flag) THEN d1
    ELSE free_chain(d1, nxt)

\* virtio_disk_rw from the descriptor loop to its first sleep
virtio_disk_rw_submit(dk, p, write) ==
    LET d1 == alloc3_desc(dk) IN
    IF d1.msg # None THEN d1
    ELSE IF d1.got = <<>> THEN [d1 EXCEPT !.pc[p] = "sleepfree"]
    ELSE LET idx == d1.got IN
         [d1 EXCEPT
            !.desc[idx[1]] = [flags |-> VRING_DESC_F_NEXT, next |-> idx[2]],
            !.desc[idx[2]] =
                [flags |-> (IF write THEN 0 ELSE VRING_DESC_F_WRITE)
                              + VRING_DESC_F_NEXT,
                 next |-> idx[3]],
            !.desc[idx[3]] = [flags |-> VRING_DESC_F_WRITE, next |-> 0],
            !.info[idx[1]] = [b |-> p, status |-> 255],
            !.bdisk[p] = TRUE,
            !.avail.ring[dk.avail.idx % NUM] = idx[1],
            !.avail.idx = @ + 1,
            !.idx[p] = idx,
            !.pc[p] = "wait"]

VdRw(p, write) ==
    /\ vd.msg = None
    /\ vd.pc[p] = "idle"
    /\ vd.calls < MaxDiskReqs
    /\ vd' = virtio_disk_rw_submit(
                 [vd EXCEPT !.calls = @ + 1, !.write[p] = write], p, write)
    /\ UNCHANGED otherVd

\* woken from sleep(&DISK.free): the loop calls alloc3_desc again
VdRetry(p) ==
    /\ vd.msg = None
    /\ vd.pc[p] = "retry"
    /\ vd' = virtio_disk_rw_submit(vd, p, vd.write[p])
    /\ UNCHANGED otherVd

\* the device serves the next entry of the avail ring: it follows the chain
\* to the status byte, writes 0 and adds the head to the used ring
VdDevice ==
    /\ vd.msg = None
    /\ vd.dev # vd.avail.idx
    /\ LET id == vd.avail.ring[vd.dev % NUM] IN
       vd' = [vd EXCEPT !.info[id].status = 0,
                        !.used.ring[vd.used.idx % NUM] = id,
                        !.used.idx = @ + 1,
                        !.dev = @ + 1]
    /\ UNCHANGED otherVd

\* virtio_disk_intr()
RECURSIVE virtio_disk_intr(_)
virtio_disk_intr(dk) ==
    IF dk.used_idx = dk.used.idx THEN dk
    ELSE LET id == dk.used.ring[dk.used_idx % NUM] IN
         IF dk.info[id].status # 0
         THEN [dk EXCEPT !.msg = "virtio_disk_intr status"]
         ELSE LET b == dk.info[id].b IN
              virtio_disk_intr(
                  [dk EXCEPT !.bdisk[b] = FALSE,
                             !.pc[b] = IF @ = "wait" THEN "woken" ELSE @,
                             !.used_idx = @ + 1])

VdIntr ==
    /\ vd.msg = None
    /\ vd.used_idx # vd.used.idx
    /\ vd' = virtio_disk_intr(vd)
    /\ UNCHANGED otherVd

\* woken from sleep(b): b.disk is false, the chain is freed, the call returns
VdReturn(p) ==
    /\ vd.msg = None
    /\ vd.pc[p] = "woken"
    /\ ~vd.bdisk[p]
    /\ LET head == vd.idx[p][1]
           d1 == free_chain([vd EXCEPT !.info[head].b = NoBuf], head) IN
       vd' = IF d1.msg # None THEN d1
             ELSE [d1 EXCEPT !.pc[p] = "idle", !.done = @ + 1,
                             !.last = vd.idx[p], !.idx[p] = <<>>]
    /\ UNCHANGED otherVd

\* ------------------------------------------------------------ initial state
InitCpu == [noff |-> 0, intena |-> FALSE, sie |-> FALSE, proc |-> {}]

InitLockVars ==
    /\ cpus = [c \in Cpus |-> InitCpu]
    /\ locks = [l \in AllLocks |-> [locked |-> 0, cpu |-> {}]]

InitHartVars ==
    /\ hpc = [c \in Cpus |-> "idle"]
    /\ harg = [c \in Cpus |-> LK]
    /\ held = [c \in Cpus |-> {}]
    /\ callHeld = [c \in Cpus |-> FALSE]
    /\ hcall = [c \in Cpus |-> None]
    /\ rawpush = [c \in Cpus |-> 0]
    /\ before = [c \in Cpus |-> FALSE]
    /\ hpanic = [c \in Cpus |-> None]

InitProcVars ==
    /\ procs = [p \in Procs |-> [state |-> "RUNNABLE", chan |-> NoChan]]
    /\ th = [p \in Procs |-> InitThread]
    /\ sch = [c \in Cpus |-> [pc |-> "top", idx |-> 1]]
    /\ work = 0
    /\ slp = [locked |-> 0, pid |-> "0"]

InitBioVars ==
    /\ mem = [a \in {HEAD} \cup Bufs |-> NewBuf]
    /\ bclock = {}
    /\ booted = FALSE
    /\ disk \in DiskImages
    /\ bt = [p \in Procs |-> [call |-> "none", req |-> 0, end |-> "idle",
                               msg |-> None, buf |-> HEAD]]

InitLogVars ==
    /\ LOG = NewLog
    /\ lt = [p \in Procs |-> LogIdle]
    /\ gh = [boot |-> "off", fresh |-> FALSE, crashes |-> 0, disk0 |-> disk,
             wrote |-> NoWrites, done |-> NoWrites, base |-> HomeOf(disk)]

InitXv == xv = NewExec(1, 1)
InitKm ==
    km = [up |-> FALSE, lock |-> {}, freelist |-> NULL,
          next |-> [f \in Managed |-> Junk],
          t |-> [p \in Procs |-> KIdle]]
InitPp ==
    pp = [data |-> [i \in 0 .. (PIPESIZE - 1) |-> 0], nread |-> 0, nwrite |-> 0,
          readopen |-> TRUE, writeopen |-> TRUE,
          w |-> [pc |-> "idle", call |-> "none", i |-> 0, n |-> 0, ret |-> 0],
          r |-> [pc |-> "idle", call |-> "none", n |-> 0, cnt |-> 0, ret |-> 0,
                 slept |-> FALSE],
          next |-> 1, accepted |-> <<>>, delivered |-> <<>>]
InitWt ==
    wt = [procs |-> [q \in WSlots |->
                       IF q > 2 + NKids THEN NewProc
                       ELSE [NewProc EXCEPT !.state = "RUNNING", !.pid = q,
                                            !.cwd = TRUE,
                                            !.parent = IF q = INIT_PROC THEN WNoProc
                                                       ELSE IF q = 2 THEN INIT_PROC
                                                       ELSE 2]],
          wait_lock |-> WNoProc,
          plock |-> [q \in WSlots |-> WNoProc],
          t |-> [q \in WSlots |-> WIdle],
          calls |-> 0]
InitFk ==
    fk = [procs |-> [q \in FSlots |->
                       IF q = 1
                       THEN [FProc0 EXCEPT !.state = "RUNNING", !.pid = 1,
                                           !.trapframe = FirstTf,
                                           !.pagetable = FirstTf - 1,
                                           !.sz = PGSIZE,
                                           !.ofile = [fd \in Fds |->
                                                        IF fd = 0 THEN 1 ELSE FNone],
                                           !.cwd = 1]
                       ELSE FProc0],
          mem |-> [f \in MemFrames |-> IF f = FirstTf THEN NewTf ELSE OtherData],
          freelist |-> [i \in 1 .. NFree |-> NFree + 1 - i],
          ref_cnt |-> [f \in FFiles |-> IF f = 1 THEN 1 ELSE 0],
          iref |-> 1,
          next_pid |-> 2,
          r |-> FNone,
          forks |-> 0,
          t |-> [q \in FSlots |-> FIdle]]
InitCl ==
    cl = [ofile |-> [fd \in Fds |-> CNone],
          file |-> [f \in CFiles |-> NewFile],
          iput |-> {}, call |-> "none", arg |-> 0, fd |-> -1, f |-> CNone,
          ret |-> 0, msg |-> None]
InitIv ==
    iv = [inode |-> [i \in Inos |-> NewINode],
          dinode |-> [i \in Inos |->
                        [file_type |-> T_FILE, nlink |-> i - 1, size |-> 1,
                         addrs |-> DiskAddrs(i)]],
          ind |-> [b \in {DiskAddrs(i)[NDIRECT] : i \in Inos} |->
                     DiskInd(CHOOSE i \in Inos : DiskAddrs(i)[NDIRECT] = b)],
          bmap |-> UNION {BlocksOf(DiskAddrs(i), DiskInd(i)) : i \in Inos},
          lh |-> [n |-> 0, block |-> NoBlocks],
          intx |-> FALSE, br |-> BrAll, t |-> IvIdle]
InitKt ==
    kt = [pc |-> "user", killed |-> 0, epc |-> 0, scause |-> SCAUSE_SYSCALL,
          which_dev |-> 0, ran |-> FALSE, entry_killed |-> 0, ret_killed |-> 0,
          status |-> 0, xstate |-> 0, traps |-> 0]
InitNx == nx = NxIdle

InitIa == ia = IaIdle

InitVm ==
    vm = [pc |-> "idle", pt |-> [f \in VFrames |-> ZeroPage],
          free |-> [i \in 1 .. (NVmFrames - 3) |-> i + 1], calls |-> 0,
          c |-> VmIdle]

InitLw ==
    lw = [L |-> LwLog, pc |-> [p \in LwProcs |-> "idle"], pins |-> LwNoPins,
          passed |-> {}, msg |-> None]

InitPk ==
    pk = [parent |-> [p \in Procs |-> KNoProc],
          killed |-> [p \in Procs |-> 0],
          pid |-> [p \in Procs |-> IF p = KInit THEN 1 ELSE 0],
          next_pid |-> 2,
          fsinit |-> 0, fsinit_by |-> {},
          i |-> [p \in Procs |-> 1],
          havekids |-> [p \in Procs |-> FALSE],
          np |-> [p \in Procs |-> KNoProc],
          ops |-> 0]

\* After userinit: INIT_PROC is RUNNABLE with its context at forkret, the
\* other slots are UNUSED.
InitProcBoot ==
    /\ procs = [p \in Procs |->
                  [state |-> IF p = KInit THEN "RUNNABLE" ELSE "UNUSED",
                   chan |-> NoChan]]
    /\ th = [p \in Procs |-> InitThread]
    /\ sch = [c \in Cpus |-> [pc |-> "top", idx |-> 1]]
    /\ work = 0
    /\ slp = [locked |-> 0, pid |-> "0"]

InitIt ==
    it = [inode |-> [e \in ItEntries |-> NewItEntry],
          hold |-> [p \in ItProcs |-> [e \in ItEntries |-> 0]],
          got |-> [e \in ItEntries |-> 0],
          put |-> [e \in ItEntries |-> 0],
          pc |-> [p \in ItProcs |-> ItNone],
          reads |-> 0, ops |-> 0,
          op |-> [name |-> "none", key |-> <<0, 0>>, ret |-> ItNone],
          msg |-> None]

InitFt ==
    ft = [ofile |-> [p \in FtProcs |-> [fd \in Fds |-> CNone]],
          file |-> [f \in CFiles |-> NewFile],
          iput |-> {}, alive |-> {FtInit}, call |-> "none", arg |-> 0, p |-> 0,
          ret |-> 0, msg |-> None]

InitVd ==
    vd = [free |-> [i \in Descs |-> TRUE],
          desc |-> [i \in Descs |-> NewDesc],
          info |-> [i \in Descs |-> [b |-> NoBuf, status |-> 0]],
          avail |-> [ring |-> [i \in Descs |-> 0], idx |-> 0],
          used |-> [ring |-> [i \in Descs |-> 0], idx |-> 0],
          used_idx |-> 0, dev |-> 0,
          pc |-> [p \in VdProcs |-> "idle"],
          idx |-> [p \in VdProcs |-> <<>>],
          bdisk |-> [p \in VdProcs |-> FALSE],
          write |-> [p \in VdProcs |-> FALSE],
          got |-> <<>>, last |-> <<>>, calls |-> 0, done |-> 0, msg |-> None]

InitSysRest ==
    /\ InitXv /\ InitKm /\ InitPp /\ InitFk
    /\ InitCl /\ InitIv /\ InitKt /\ InitNx /\ InitIa /\ InitVm /\ InitLw /\ InitPk /\ InitIt /\ InitFt /\ InitVd

InitSysVars == InitSysRest /\ InitWt

\* The process table with orphans to come: init, its shell, the shell's
\* children, and children of slot 3.
InitWtChain ==
    wt = [procs |-> [q \in WSlots |->
                       [NewProc EXCEPT !.state = "RUNNING", !.pid = q,
                                       !.cwd = TRUE,
                                       !.parent = IF q = INIT_PROC THEN WNoProc
                                                  ELSE IF q = 2 THEN INIT_PROC
                                                  ELSE IF q <= 2 + NKids THEN 2
                                                  ELSE 3]],
          wait_lock |-> WNoProc,
          plock |-> [q \in WSlots |-> WNoProc],
          t |-> [q \in WSlots |-> WIdle],
          calls |-> 0]

InitReparent ==
    /\ InitLockVars /\ InitHartVars /\ InitProcVars /\ InitBioVars /\ InitLogVars
    /\ InitSysRest /\ InitWtChain

\* Boot with one disk image (the process calls here do no disk I/O).
InitKernel ==
    /\ InitLockVars /\ InitHartVars /\ InitProcBoot /\ InitBioVars /\ InitLogVars
    /\ InitSysVars
    /\ disk = CHOOSE d \in DiskImages : TRUE

Init ==
    /\ InitLockVars /\ InitHartVars /\ InitProcVars /\ InitBioVars /\ InitLogVars
    /\ InitSysVars

vars == <<lockVars, hartVars, procVars, bioVars, logVars, sysVars>>

\* ------------------------------------------------------------------ specs
\* Bare threads on the harts calling the spinlock interface.
NextLock ==
    \E c \in Cpus :
        \/ HIntrOn(c)
        \/ HIntrOff(c)
        \/ HPushOff(c)
        \/ HPopOff(c)
        \/ \E l \in FreeLocks : HAcquireCall(c, l)
        \/ HAcquireSwap(c)
        \/ HAcquireRet(c)
        \/ \E l \in FreeLocks : HReleaseCall(c, l)
        \/ HReleaseUnlock(c)
        \/ HReleasePop(c)

SpecLock == Init /\ [][NextLock]_vars

\* The per-hart schedulers, and what every process thread may do.
SchedStep ==
    \E c \in SchedCpus :
        SchedTop(c) \/ SchedScan(c) \/ SchedSpin(c) \/ SchedBack(c)

ThreadStep(p) ==
    \/ PSpin(p)
    \/ PForkret(p)
    \/ SchedResume(p)
    \/ SleepRel(p)
    \/ SleepSched(p)
    \/ SleepTidy(p)
    \/ SleepReacq(p)
    \/ WakeNext(p)
    \/ WakeChk(p)

\* Producer and consumer over sleep/wakeup, with timer yields.
NextSleep ==
    \/ SchedStep
    \/ \E p \in Procs :
        \/ ThreadStep(p)
        \/ PIntrOn(p)
        \/ PIntrOff(p)
        \/ YieldCall(p)
        \/ YieldSched(p)
        \/ YieldRel(p)
        \/ ProdStart(p)
        \/ ProdEnq(p)
        \/ ConsStart(p)
        \/ ConsChk(p)
        \/ ConsBack(p)

SpecSleep == Init /\ [][NextSleep]_vars

\* Callers of the inode table.
NextItable ==
    \E p \in ItProcs :
        \/ \E k \in ItKeys : ItIget(p, k[1], k[2])
        \/ \E e \in ItEntries : ItIdup(p, e)
        \/ \E e \in ItEntries : \E nlink \in {0, 1} : ItIlock(p, e, nlink)
        \/ \E e \in ItEntries : ItIput(p, e)
        \/ ItIputEnd(p)

SpecItable == Init /\ [][NextItable]_vars

\* Processes that open, dup, close, fork and exit.
NextFiles ==
    \E p \in FtProcs :
        \/ FtOpen(p)
        \/ \E a \in CArgs : FtDup(p, a)
        \/ \E a \in CArgs : FtClose(p, a)
        \/ \E np \in FtProcs : FtFork(p, np)
        \/ FtExit(p)

SpecFiles == Init /\ [][NextFiles]_vars

\* Processes that read and write blocks, the device and its interrupt.
NextVirtio ==
    \/ \E p \in VdProcs : \E write \in BOOLEAN : VdRw(p, write)
    \/ \E p \in VdProcs : VdRetry(p)
    \/ VdDevice
    \/ VdIntr
    \/ \E p \in VdProcs : VdReturn(p)

SpecVirtio == Init /\ [][NextVirtio]_vars

\* The device serves every request, its interrupt is delivered, and a
\* process that was woken runs again.
SpecVirtioFair ==
    /\ Init /\ [][NextVirtio]_vars
    /\ WF_vars(VdDevice) /\ WF_vars(VdIntr)
    /\ \A p \in VdProcs : WF_vars(VdRetry(p)) /\ WF_vars(VdReturn(p))

\* The schedulers and the process calls from boot.
KernelStep(p) ==
    \/ PSpin(p)
    \/ SchedResume(p)
    \/ SleepRel(p)
    \/ SleepSched(p)
    \/ SleepTidy(p)
    \/ SleepReacq(p)
    \/ WakeNext(p)
    \/ WakeChk(p)
    \/ YieldSched(p)
    \/ YieldRel(p)
    \/ KForkret(p)
    \/ KForkretLoad(p)
    \/ KForkretFsinit(p)
    \/ KForkCall(p)
    \/ KAllocAcq(p)
    \/ \E ok \in BOOLEAN : KAllocChk(p, ok)
    \/ KForkRel(p)
    \/ KForkWl(p)
    \/ KForkParent(p)
    \/ KForkNp(p)
    \/ KForkRun(p)
    \/ KExitCall(p)
    \/ KExitReparent(p)
    \/ KExitLock(p)
    \/ KExitZombie(p)
    \/ KExitSched(p)
    \/ KWaitCall(p)
    \/ KWaitScan(p)
    \/ KWaitChk(p)
    \/ KWaitRet(p)
    \/ KWaitDecide(p)
    \/ KWaitKilled(p)
    \/ KWaitSleep(p)
    \/ KWaitLoop(p)
    \/ KSetkilled(p)
    \/ KSetkilledRel(p)
    \/ KYieldCall(p)
    \/ KNestOuter(p)
    \/ KNestInner(p)
    \/ KNestSleep(p)

NextKernel ==
    \/ SchedStep
    \/ \E p \in Procs : KernelStep(p)

SpecKernel == InitKernel /\ [][NextKernel]_vars

\* Processes taking and releasing the sleep lock, next to the producer
\* and the consumer.
NextSleeplock ==
    \/ SchedStep
    \/ \E p \in Procs :
        \/ ThreadStep(p)
        \/ ProdStart(p)
        \/ ProdEnq(p)
        \/ ConsStart(p)
        \/ ConsChk(p)
        \/ ConsBack(p)
        \/ AsStart(p)
        \/ AsChk(p)
        \/ RsStart(p)
        \/ RsClear(p)
        \/ RsRel(p)

SpecSleeplock == Init /\ [][NextSleeplock]_vars

\* Callers of the buffer cache.
NextBio ==
    \/ Binit
    \/ \E p \in Procs :
        \/ \E blockno \in BlockNos : Bread(p, blockno)
        \/ \E b \in Bufs : Bwrite(p, b) \/ Brelse(p, b) \/ Bpin(p, b) \/ Bunpin(p, b)

SpecBio == Init /\ [][NextBio]_vars

\* Callers of the log, and power loss.
NextLog ==
    \/ Binit
    \/ Crash
    \/ \E p \in Procs :
        \/ Initlog(p)
        \/ BeginOp(p)
        \/ \E blockno \in BlockNos, v \in Values : FsWrite(p, blockno, v)
        \/ EndOp(p)
        \/ Commit(p)

SpecLog == Init /\ [][NextLog]_vars

\* A process calling exec.
NextExec == ExecStep \/ ExecReturn

SpecExec == Init /\ [][NextExec]_vars

\* Callers of the frame allocator on several harts.
NextKalloc ==
    \/ Kinit
    \/ \E p \in Procs :
        \/ KallocAcq(p)
        \/ KallocPop(p)
        \/ KallocRet(p)
        \/ \E pa \in Managed : KfreeCall(p, pa)
        \/ KfreePush(p)

SpecKalloc == Init /\ [][NextKalloc]_vars

\* One writer and one reader on a pipe.
NextPipe ==
    \/ \E n \in 1 .. MaxBytes : PipeWrite(n)
    \/ PipeWriteResume
    \/ \E n \in ReadSizes : PipeRead(n)
    \/ PipeReadResume
    \/ \E writable \in BOOLEAN : PipeClose(writable)

SpecPipe == Init /\ [][NextPipe]_vars

\* The scheduler runs a process that a wakeup made RUNNABLE.
SpecPipeFair ==
    /\ Init /\ [][NextPipe]_vars
    /\ WF_vars(PipeReadResume) /\ WF_vars(PipeWriteResume)

WaitThread(p) ==
    \/ \E addr \in WaitAddrs : WaitCall(p, addr)
    \/ WaitScan(p)
    \/ WaitDecide(p)
    \/ WaitSleepAcq(p)
    \/ WaitSleepRel(p)
    \/ WaitSleepSched(p)
    \/ WaitResume(p)
    \/ WaitReacq(p)
    \/ WaitReturn(p)

ExitThread(p) ==
    \/ \E status \in ExitStatus : ExitCall(p, status)
    \/ ExitAcq(p)
    \/ ExitReparent(p)
    \/ ExitWakeup(p)
    \/ ExitZombie(p)

NextWait ==
    \/ \E p \in Waiters : WaitThread(p)
    \/ \E p \in WSlots : ExitThread(p)
    \/ \E q \in Killable : WSetkilled(q)

SpecWait == Init /\ [][NextWait]_vars

NextFork ==
    \/ \E p \in FSlots : ForkCall(p) \/ ForkLink(p) \/ ForkRun(p) \/ ForkReturn(p)
    \/ \E q \in FSlots : FkSched(q)
    \/ \E p \in FSlots, v \in UserA0 : FkUser(p, v)

SpecFork == Init /\ [][NextFork]_vars

NextClose ==
    \/ \E a \in CArgs : SysClose(a)
    \/ \E a \in CArgs : SysDup(a)
    \/ SysOpen

SpecClose == Init /\ [][NextClose]_vars

BreadBudget == (0 .. (NDIRECT + NINDIRECT + 3)) \cup {BrAll}

NextIput ==
    \/ IvBeginOp
    \/ IvEndOp
    \/ \E i \in Inos : Iget(i)
    \/ \E i \in Inos, br \in {0, BrAll} : Ilock(i, br)
    \/ \E i \in Inos : Iunlock(i)
    \/ \E i \in Inos : IputCall(i)
    \/ \E br \in BreadBudget : IputFree(br)
    \/ IputDrop

SpecIput == Init /\ [][NextIput]_vars

NextTrap ==
    \/ \E scause \in Scauses : UsertrapEnter(scause)
    \/ UsertrapSyscallChk
    \/ UsertrapSyscall
    \/ UsertrapDevintr
    \/ UsertrapKilledChk
    \/ UsertrapYield
    \/ Usertrapret
    \/ KtSetkilled

SpecTrap == Init /\ [][NextTrap]_vars

NextNamex ==
    \/ \E raw \in PathBufs, parent \in BOOLEAN : Namex(raw, parent)
    \/ \E isdir \in BOOLEAN, found \in BOOLEAN : NamexLoop(isdir, found)
    \/ NamexReturn

SpecNamex == Init /\ [][NextNamex]_vars

NextIalloc ==
    \/ \E used \in BootImages : IaBoot(used)
    \/ \E name \in Names, file_type \in {T_FILE, T_DIR}, dotok \in BOOLEAN,
          dlok \in BOOLEAN : Create(name, file_type, dotok, dlok)
    \/ CreateReturn

SpecIalloc == Init /\ [][NextIalloc]_vars

NextVm ==
    \/ \E va \in VmVas, pa \in VmPas, size \in {0, PGSIZE, 2 * PGSIZE},
          perm \in VmPerms : Mappages(va, pa, size, perm)
    \/ \E va \in VmVas \cup {1}, npages \in 1 .. 2, do_free \in BOOLEAN :
          Uvmunmap(va, npages, do_free)
    \/ VmReturn

SpecVm == Init /\ [][NextVm]_vars

\* A user image: pages mapped at the bottom of the address space, grown
\* with uvmalloc, freed with uvmfree.
NextUvm ==
    \/ \E va \in {0, PGSIZE}, pa \in VmPas, perm \in VmPerms :
          Mappages(va, pa, PGSIZE, perm)
    \/ \E oldsz \in {0, PGSIZE}, newsz \in UvmSizes, xperm \in {0, PTE_W} :
          Uvmalloc(oldsz, newsz, xperm)
    \/ \E sz \in UvmSizes : Uvmfree(sz)
    \/ VmReturn

SpecUvm == Init /\ [][NextUvm]_vars

NextLw ==
    \/ \E p \in LwProcs : LwBeginOp(p)
    \/ \E p \in LwProcs, blockno \in BlockNos : LwLogWrite(p, blockno)
    \/ \E p \in LwProcs : LwEndOp(p)
    \/ \E p \in LwProcs : LwCommit(p)
    \/ \E p \in LwProcs : LwEndCommit(p)

SpecLw == Init /\ [][NextLw]_vars

\* The scheduler runs every runnable process: a process that can take a
\* step of begin_op's loop, of end_op or of commit() takes it.  Nothing
\* makes an idle process start a new operation.
LwRetry(p) == lw.pc[p] = "woken" /\ LwBeginOp(p)
SpecLwFair ==
    /\ SpecLw
    /\ \A p \in LwProcs :
          /\ WF_vars(LwRetry(p))
          /\ WF_vars(LwEndOp(p))
          /\ WF_vars(LwCommit(p))
          /\ WF_vars(LwEndCommit(p))

\* init in its wait loop, and the other processes exiting.
InitLoop ==
    \/ InitWait
    \/ WaitScan(INIT_PROC)
    \/ WaitDecide(INIT_PROC)
    \/ WaitSleepAcq(INIT_PROC)
    \/ WaitSleepRel(INIT_PROC)
    \/ WaitSleepSched(INIT_PROC)
    \/ WaitResume(INIT_PROC)
    \/ WaitReacq(INIT_PROC)
    \/ InitMain

ExitProgress(p) == ExitAcq(p) \/ ExitReparent(p) \/ ExitWakeup(p) \/ ExitZombie(p)

NextReparent ==
    \/ InitLoop
    \/ \E status \in ExitStatus : ShellExit(status)
    \/ \E p \in WSlots \ {INIT_PROC, ShSlot}, status \in ExitStatus : ExitCall(p, status)
    \/ \E p \in WSlots \ {INIT_PROC} : ExitProgress(p)

SpecReparent == InitReparent /\ [][NextReparent]_vars

\* Every hart keeps running: init goes round its loop, and an exit() that
\* has started takes its next step once that step is possible.  Nothing
\* makes a process call exit().
SpecReparentFair ==
    /\ SpecReparent
    /\ WF_vars(InitLoop)
    /\ \A p \in WSlots \ {INIT_PROC} : WF_vars(ExitProgress(p))

\* Every hart keeps running: a call that has started takes its next step
\* once that step is possible.
WaitProgress ==
    \/ \E p \in Waiters :
          \/ WaitScan(p) \/ WaitDecide(p) \/ WaitSleepAcq(p)
          \/ WaitSleepRel(p) \/ WaitSleepSched(p) \/ WaitResume(p)
          \/ WaitReacq(p)
    \/ \E p \in WSlots :
          ExitAcq(p) \/ ExitReparent(p) \/ ExitWakeup(p) \/ ExitZombie(p)

SpecWaitFair == SpecWait /\ WF_vars(WaitProgress)

\* ================================================================= claims
\* ---- inode table (fs.rs iget, idup, iput)
RECURSIVE ItSum(_, _)
ItSum(f, S) ==
    IF S = {} THEN 0
    ELSE LET x == CHOOSE y \in S : TRUE IN f[x] + ItSum(f, S \ {x})

ItCached(dev, inum) ==
    \E e \in ItEntries :
        /\ it.inode[e].ref_cnt > 0
        /\ it.inode[e].dev = dev /\ it.inode[e].inum = inum

ItIgetStep == it'.ops = it.ops + 1 /\ it'.op.name = "iget"

\* C36: inode table.  At most one entry with ref_cnt > 0 carries a given
\* (dev, inum); an entry's ref_cnt is the number of iget and idup calls
\* that returned it minus the number of iput calls on it (the references
\* the callers have in hand); iget reads nothing from the disk and returns
\* an entry carrying the (dev, inum) asked for; and iget panics "iget: no
\* inodes" exactly when the inode is not cached and every entry has
\* ref_cnt > 0.
C36_Inv ==
    /\ \A e1, e2 \in ItEntries :
          (/\ e1 # e2
           /\ it.inode[e1].ref_cnt > 0 /\ it.inode[e2].ref_cnt > 0)
              => <<it.inode[e1].dev, it.inode[e1].inum>>
                    # <<it.inode[e2].dev, it.inode[e2].inum>>
    /\ \A e \in ItEntries :
          /\ it.inode[e].ref_cnt = it.got[e] - it.put[e]
          /\ it.inode[e].ref_cnt
                = ItSum([p \in ItProcs |-> it.hold[p][e]], ItProcs)

C36_Step ==
    ItIgetStep =>
        /\ it'.reads = it.reads
        /\ (it'.msg = "iget: no inodes")
              <=> (/\ ~ItCached(it'.op.key[1], it'.op.key[2])
                   /\ \A e \in ItEntries : it.inode[e].ref_cnt > 0)
        /\ it'.msg = None
              => /\ it'.op.ret \in ItEntries
                 /\ it'.inode[it'.op.ret].dev = it'.op.key[1]
                 /\ it'.inode[it'.op.ret].inum = it'.op.key[2]
                 /\ it'.inode[it'.op.ret].ref_cnt
                       = it.inode[it'.op.ret].ref_cnt + 1

C36_InodeTable == [] C36_Inv /\ [][C36_Step]_vars

\* The table is full of referenced entries, one of them returned twice
\* and put once, and an iget of an inode that is not cached has panicked.
C36_Witness ==
    /\ it.msg = "iget: no inodes"
    /\ \E e \in ItEntries : it.got[e] = 2 /\ it.put[e] = 1

\* ---- pipe blocking and close (pipe.rs)
\* A step of Pipe::read (the call or its return from sleep) and of
\* Pipe::write.
PipeReadStep ==
    pp.r.pc \in {"idle", "woken"} /\ pp'.r # pp.r /\ pp'.r.call = "read"

PipeWriteStep ==
    pp.w.pc \in {"idle", "woken"} /\ pp'.w # pp.w /\ pp'.w.call = "write"

\* C34: pipe blocking and close.  0 <= nwrite - nread <= PIPESIZE; a
\* reader sleeps only on an empty pipe with the write end open and a writer
\* only on a full pipe with the read end open; read on an empty pipe sleeps
\* while the write end is open and returns 0 once it is closed; write to a
\* full pipe sleeps and returns -1 once the read end is closed; close wakes
\* the sleeping peer; and under fair scheduling a reader or writer whose
\* peer has closed returns.
C34_Inv ==
    /\ 0 <= pp.nwrite - pp.nread /\ pp.nwrite - pp.nread <= PIPESIZE
    /\ pp.r.pc = "sleep" => pp.nread = pp.nwrite /\ pp.writeopen
    /\ pp.w.pc = "sleep" => pp.nwrite = pp.nread + PIPESIZE /\ pp.readopen

C34_Step ==
    /\ (PipeReadStep /\ pp.nread = pp.nwrite)
          => IF pp.writeopen
             THEN pp'.r.pc = "sleep"
             ELSE pp'.r.pc = "idle" /\ pp'.r.ret = 0
    /\ (PipeWriteStep /\ ~pp.readopen)
          => pp'.w.pc = "idle" /\ pp'.w.ret = -1
    /\ (PipeWriteStep /\ pp.readopen)
          => \/ pp'.w.pc = "sleep" /\ pp'.nwrite = pp'.nread + PIPESIZE
             \/ pp'.w.pc = "idle" /\ pp'.w.ret = pp'.w.n
    /\ (pp.writeopen /\ ~pp'.writeopen /\ pp.r.pc = "sleep")
          => pp'.r.pc = "woken"
    /\ (pp.readopen /\ ~pp'.readopen /\ pp.w.pc = "sleep")
          => pp'.w.pc = "woken"

C34_Live ==
    /\ (pp.r.pc # "idle" /\ ~pp.writeopen) ~> (pp.r.pc = "idle")
    /\ (pp.w.pc # "idle" /\ ~pp.readopen) ~> (pp.w.pc = "idle")

PLocksOf(c) == {p \in Procs : holding(locks, PLock(p), c)}

\* The lock hart c spins on, in its scheduler or in the thread it runs.
SpinsOn(c) ==
    IF sch[c].pc = "spin" THEN {PLock(PROCS[sch[c].idx])}
    ELSE {th[p].spin : p \in {q \in Procs : OnCpu(q, c) /\ th[q].spin # NoLock}}

\* Every hart of S spins on a lock held by a hart of S.
SpinCycle(S) ==
    \A c \in S : \E l \in SpinsOn(c) : \E d \in S : holding(locks, l, d)

\* C32: lock ordering.  No hart holds two process locks; a hart that asks
\* for WAIT_LOCK holds no process lock; a hart back in its scheduler's scan
\* holds no lock (nothing is switched out holding WAIT_LOCK); and no set of
\* harts spins on locks held within the set.
C32_Inv ==
    /\ \A c \in Cpus : Cardinality(PLocksOf(c)) <= 1
    /\ \A c \in Cpus : WAIT_LOCK \in SpinsOn(c) => PLocksOf(c) = {}
    /\ \A c \in Cpus : sch[c].pc \in {"top", "scan", "spin"}
          => \A l \in AllLocks : ~holding(locks, l, c)
    /\ \A S \in (SUBSET Cpus) \ {{}} : ~SpinCycle(S)

C32_Step ==
    \A c \in Cpus :
        (~holding(locks, WAIT_LOCK, c) /\ holding(locks', WAIT_LOCK, c))
            => PLocksOf(c) = {}

C33_Step ==
    \A p \in Procs : \A c \in Cpus :
        /\ (OnCpu(p, c) /\ sch'[c].pc = "back")
              => /\ holding(locks, PLock(p), c)
                 /\ cpus[c].noff = 1
                 /\ procs'[p].state # "RUNNING"
                 /\ ~intr_get(cpus, c)
                 /\ th'[p].pc = "sched_resume"
        /\ (/\ OnCpu(p, c) /\ th[p].pc = "sleep_sched" /\ th'[p] # th[p]
            /\ \E l \in AllLocks \ {PLock(p)} : holding(locks, l, c))
              => th'[p].panic # None /\ sch'[c].pc = "away"

C33_SwitchPreconditions == [][C33_Step]_vars

\* One process has exited through sched() and is a ZOMBIE off its hart;
\* another called sleep under a second spinlock and panicked in sched().
C33_Witness ==
    \E p, q \in Procs :
        /\ th[p].panic = "sched locks" /\ holding(locks, SLK, CpuOf(p))
        /\ procs[q].state = "ZOMBIE" /\ th[q].pc = "sched_resume"
        /\ \A c \in Cpus : cpus[c].proc # {q}

\* The process threads that are past forkret.
PastForkret ==
    {p \in Procs : /\ procs[p].state \notin {"UNUSED", "USED"}
                   /\ th[p].pc \notin {"forkret", "forkret_load",
                                       "forkret_store"}}

\* C35: file-system initialisation runs once.  fsinit(ROOTDEV) has run
\* exactly once as soon as a process is past forkret, it ran in the first
\* process (INIT_PROC, pid 1), and no later process's forkret runs it.
C35_FsinitOnce ==
    /\ pk.fsinit <= 1
    /\ pk.fsinit_by \subseteq {<<KInit, 1>>}
    /\ PastForkret # {} => pk.fsinit = 1

\* ---- scheduler (proc.rs scheduler, sched, proc_yield)
\* The harts whose c.proc is p.
CpusOf(p) == {c \in Cpus : cpus[c].proc = {p}}

\* C31: scheduler exclusivity.  A process is the c.proc of at most one
\* hart, and only while it is RUNNING or its own lock is held on that hart
\* (on the way into or out of sched()); a process is RUNNING on no hart but
\* the one whose c.proc it is; and the scheduler switches only to a process
\* it saw RUNNABLE under that process's lock.
C31_Inv ==
    \A p \in Procs :
        /\ Cardinality(CpusOf(p)) <= 1
        /\ \A c \in CpusOf(p) :
              procs[p].state = "RUNNING" \/ holding(locks, PLock(p), c)
        /\ procs[p].state = "RUNNING" => CpusOf(p) # {}

C31_Step ==
    \A p \in Procs : \A c \in Cpus :
        (cpus[c].proc # {p} /\ cpus'[c].proc = {p})
            => /\ procs[p].state = "RUNNABLE"
               /\ procs'[p].state = "RUNNING"
               /\ holding(locks', PLock(p), c)
               /\ CpusOf(p) = {}

C31_Exclusivity == [] C31_Inv /\ [][C31_Step]_vars

\* Both harts run a process each, one of them back from a yield that the
\* other hart's scheduler picked up.
C31_Witness ==
    \E p, q \in Procs : \E c, d \in Cpus :
        /\ p # q /\ c # d
        /\ OnCpu(p, c) /\ OnCpu(q, d)
        /\ procs[p].state = "RUNNING" /\ procs[q].state = "RUNNING"
        /\ th[p].pc = "yield_rel"

\* ---- exec
ExecEnded == xv.pc \in {"done", "panic"}
ExecSucceeded == xv.pc = "done" /\ xv.ret >= 0
Image(pr) == <<pr.pid, pr.ofile, pr.cwd, pr.pagetable, pr.sz, pr.epc, pr.sp>>

\* C11: an exec call that ends on a failure path has returned -1 without
\* a panic, the page table it built is freed, the inode is unlocked and
\* put once (ref_cnt as before the call), and end_op has been called once
\* for its begin_op (log.outstanding as before the call).
C11_ExecFailureCleanup ==
    ExecEnded /\ ~ExecSucceeded =>
        /\ xv.pc = "done" /\ xv.ret = -1
        /\ xv.newpt \cap xv.pts = {}
        /\ ~xv.iplock /\ xv.ipref = xv.pre.ipref
        /\ xv.out = xv.pre.out

\* C12: when exec has returned -1 the process's pid, open files, cwd,
\* page table, size and saved user pc/sp are what they were before the
\* call and the old page table is still allocated; the image changes only
\* in the step that ends exec with success.
C12_Inv ==
    xv.pc = "done" /\ xv.ret = -1 =>
        /\ Image(xv.p) = Image(xv.pre.p)
        /\ xv.p.pagetable \in xv.pts
C12_Step ==
    Image(xv'.p) # Image(xv.p) => xv'.pc = "done" /\ xv'.ret >= 0
C12_ExecAtomicity == [] C12_Inv /\ [][C12_Step]_vars
C12_Witness ==
    xv.pc = "done" /\ xv.ret = -1 /\ xv.newpt # {}

\* ---- kalloc
\* The frames on KMEM.freelist, following next from r.
RECURSIVE FreeFrom(_, _)
FreeFrom(r, seen) ==
    IF r = NULL \/ r \in seen \/ r \notin Managed THEN seen
    ELSE FreeFrom(km.next[r], seen \cup {r})
FreeList == FreeFrom(km.freelist, {})
\* Frames a caller holds: returned to it, or in its hands inside kalloc
\* or kfree.
LiveOf(p) == km.t[p].own \cup (IF km.t[p].r # NULL THEN {km.t[p].r} ELSE {})
Live == UNION {LiveOf(p) : p \in Procs}

\* C13: every frame kalloc has returned is page-aligned and within
\* [end, PHYSTOP), no frame is with two callers at once, and the live
\* frames and the free-list frames are disjoint and together the managed
\* range.
C13_FrameDuality ==
    km.up =>
        /\ \A p \in Procs : \A f \in LiveOf(p) :
              f % PGSIZE = 0 /\ f >= KEnd /\ f < PHYSTOP
        /\ \A p, q \in Procs : p # q => LiveOf(p) \cap LiveOf(q) = {}
        /\ \A p \in Procs : km.t[p].r \notin km.t[p].own
        /\ Live \cap FreeList = {}
        /\ Live \cup FreeList = Managed
        /\ \A p \in Procs : km.t[p].pc # "panic"
C13_Witness ==
    /\ \E p \in Procs : km.t[p].own # {}
    /\ \E f \in FreeList : km.next[f] \in FreeList /\ km.next[f] > f

\* ---- pipe
IsPrefix(a, b) == Len(a) <= Len(b) /\ \A i \in 1 .. Len(a) : a[i] = b[i]

\* C14: the bytes the reads have delivered are the bytes the writes have
\* accepted, in order, none lost or duplicated; a read that has returned
\* returned the number of bytes it delivered, and 0 only with the pipe
\* empty and the write end closed.
C14_PipeOrdering ==
    /\ IsPrefix(pp.delivered, pp.accepted)
    /\ Len(pp.delivered) = pp.nread
    /\ pp.r.call = "read" /\ pp.r.pc = "idle" =>
          /\ pp.r.ret = pp.r.cnt
          /\ pp.r.ret = 0 => ~pp.writeopen /\ pp.nread = pp.nwrite

\* ---- wait / exit
WaitDone(p) == wt.t[p].call = "wait" /\ wt.t[p].pc = "done"

\* An exit() that holds WAIT_LOCK and has not yet gone past p in its
\* wakeup of its parent p.
WakePending(e, p) ==
    /\ wt.wait_lock = e /\ wt.t[e].call = "exit" /\ wt.procs[e].parent = p
    /\ \/ wt.t[e].pc = "reparent"
       \/ wt.t[e].pc = "wakeup" /\ wt.t[e].wret = "reparent"
       \/ wt.t[e].pc = "wakeup" /\ wt.t[e].wret = "zombie"
                                /\ wt.t[e].widx <= p

\* No wakeup is lost: p never stays SLEEPING in wait() beside a ZOMBIE child
\* unless the exit that makes it runnable is still on its way to p.
C15_NoLostWakeup ==
    \A p \in Waiters :
        (wt.t[p].pc = "asleep" /\ wt.procs[p].state = "SLEEPING") =>
            \A c \in WChildren(wt, p) :
                wt.procs[c].state = "ZOMBIE" => \E e \in WSlots : WakePending(e, p)

\* What one step of wait() may do: a returned pid is that of a slot that was
\* a ZOMBIE child of the caller and is UNUSED after the step; -1 is returned
\* only without children, when killed, or when the copy-out of the status of
\* a ZOMBIE child failed; without children the scan's end returns -1; the
\* caller goes to sleep only with children and not killed.
C15_Step ==
    \A p \in Waiters :
        LET a == wt.t[p]
            b == wt'.t[p] IN
        /\ (a.pc = "scan" /\ b.pc = "done" /\ b.ret # -1) =>
              /\ b.got \in WSlots
              /\ wt.procs[b.got].parent = p
              /\ wt.procs[b.got].state = "ZOMBIE"
              /\ b.ret = wt.procs[b.got].pid
              /\ wt'.procs[b.got].state = "UNUSED"
        /\ (a.pc = "scan" /\ b.pc = "done" /\ b.ret = -1) =>
              \/ WChildren(wt, p) = {}
              \/ wt.procs[p].killed # 0
              \/ /\ a.addr # 0 /\ b.cpfail
                 /\ \E c \in WChildren(wt, p) : wt.procs[c].state = "ZOMBIE"
        /\ (a.pc = "scan" /\ b.pc # "scan" /\ WChildren(wt, p) = {}) =>
              b.pc = "done" /\ b.ret = -1
        /\ (a.pc = "scan" /\ b.pc = "sleep") =>
              /\ WChildren(wt, p) # {} /\ wt.procs[p].killed = 0
              /\ \A c \in WChildren(wt, p) : wt.procs[c].state # "ZOMBIE"

\* A caller of wait() with a child that has called exit() gets its return.
C15_Live ==
    \A p \in Waiters :
        (/\ wt.t[p].call = "wait" /\ wt.t[p].pc # "idle"
         /\ \E c \in WChildren(wt, p) : wt.t[c].call = "exit")
            ~> (wt.t[p].pc = "done")

FdsOf(k, p, f) == {fd \in Fds : k.procs[p].ofile[fd] = f}

\* No process other than the first is runnable without a parent link.
C16_Inv ==
    \A q \in FSlots :
        (q # 1 /\ fk.procs[q].state \in {"RUNNABLE", "RUNNING"}) =>
            fk.procs[q].parent # FNone

C16_Step ==
    \A p \in FSlots :
        LET a == fk.t[p]
            b == fk'.t[p] IN
        /\ (a.pc = "idle" /\ b.pc = "link") =>
              /\ \A fd \in Fds :
                    fk'.procs[b.np].ofile[fd] = fk.procs[p].ofile[fd]
              /\ \A f \in FFiles :
                    fk'.ref_cnt[f] = fk.ref_cnt[f] + Cardinality(FdsOf(fk, p, f))
              /\ fk'.iref = fk.iref + 1
              /\ fk'.procs[b.np].cwd = fk.procs[p].cwd
        /\ (a.pc = "run" /\ b.pc = "done") =>
              /\ {q \in FSlots : fk'.procs[q].pid = b.ret} = {a.np}
              /\ fk'.procs[a.np].parent = p
              /\ fk'.procs[a.np].state = "RUNNABLE"
              /\ fk'.mem[fk'.procs[a.np].trapframe]
                    = [fk'.mem[fk'.procs[p].trapframe] EXCEPT !.a0 = 0]
        /\ (a.pc = "idle" /\ b.pc = "done") =>
              /\ b.ret = -1
              /\ \A q \in FSlots :
                    /\ fk'.procs[q].state = fk.procs[q].state
                    /\ ~fk'.procs[q].locked
              /\ fk'.ref_cnt = fk.ref_cnt /\ fk'.iref = fk.iref

\* C16: when fork returns a pid, exactly one slot holds that pid, with
\* parent == caller, a trapframe equal to the parent's except a0 == 0, every
\* open file of the parent at the same descriptor with ref_cnt one higher,
\* the cwd reference one higher, and state RUNNABLE; no child is runnable
\* before its parent link is set; a failed fork leaves no slot allocated, no
\* lock held and no reference count changed.
C16_Fork == [] C16_Inv /\ [][C16_Step]_vars

\* ---- virtio descriptors (virtio_disk.rs)
\* process p's virtio_disk_rw returns in this step
VdReturned(p) == vd.pc[p] = "woken" /\ vd'.pc[p] = "idle"

\* no request is in flight
VdQuiet == \A p \in VdProcs : vd.pc[p] = "idle"

\* C40: a virtio_disk_rw call that returns has freed the three descriptors
\* alloc3_desc gave it; with no request in flight all NUM descriptors are
\* free; and a process that sleeps for a free descriptor is woken and gets
\* its descriptors.
C40_Step ==
    \A p \in VdProcs :
        VdReturned(p) => \A k \in 1 .. 3 : vd'.free[vd.idx[p][k]]

C40_Inv == (vd.msg = None /\ VdQuiet) => \A i \in Descs : vd.free[i]

C40_Live == \A p \in VdProcs : (vd.pc[p] = "sleepfree") ~> (vd.pc[p] = "wait")

C40_Descriptors == [] C40_Inv /\ [][C40_Step]_vars /\ C40_Live

\* ---- open files among processes (file.rs, sysfile.rs)
\* the descriptor slots, over all processes, that refer to entry f
FtSlots(t, f) ==
    {s \in FtProcs \X Fds : t.ofile[s[1]][s[2]] = f}

\* the panic of fileclose
FilecloseReached == ft.msg = "fileclose"

\* C39: every file-table entry's ref_cnt is the number of descriptor slots
\* of all processes that refer to it; an entry is closed exactly in the
\* step that takes its ref_cnt from a positive value to 0; and no sequence
\* of open, dup, fork, close and exit reaches the "fileclose" panic.
C39_Inv ==
    /\ ~FilecloseReached
    /\ ft.msg = None =>
          \A f \in CFiles : ft.file[f].ref_cnt = Cardinality(FtSlots(ft, f))

C39_Step ==
    \A f \in CFiles :
        (f \in ft'.iput \ ft.iput)
            <=> (ft.file[f].ref_cnt > 0 /\ ft'.file[f].ref_cnt = 0)

C39_FileRefs == [] C39_Inv /\ [][C39_Step]_vars

\* ---- close
\* C17: after sys_close succeeds on an open descriptor fd, ofile[fd] is
\* empty, no other descriptor slot has changed and the file's ref_cnt has
\* decreased by exactly one; no descriptor refers to a file-table entry
\* whose ref_cnt is 0.
C17_Step ==
    (cl'.call = "close" /\ cl'.ret = 0 /\ cl' # cl) =>
        LET fd == cl'.arg
            f == cl.ofile[fd] IN
        /\ cl'.ofile[fd] = CNone
        /\ \A o \in Fds \ {fd} : cl'.ofile[o] = cl.ofile[o]
        /\ cl'.file[f].ref_cnt = cl.file[f].ref_cnt - 1

C17_Inv ==
    \A fd \in Fds : cl.ofile[fd] # CNone => cl.file[cl.ofile[fd]].ref_cnt > 0

C17_Close == [] C17_Inv /\ [][C17_Step]_vars

\* ---- iput
\* The iput in progress was called on the last reference of a valid inode
\* without links.
IputLast == iv.t.was.ref_cnt = 1 /\ iv.t.was.valid /\ iv.t.was.nlink = 0

\* The block is one of those the running transaction will commit.
InTransaction(blockno) ==
    \E k \in 0 .. (iv.lh.n - 1) : iv.lh.block[k] = blockno

C18_Step ==
    LET i == iv.t.ip IN
    /\ (iv.t.pc = "drop" /\ iv'.t.pc = "idle" /\ IputLast) =>
          /\ iv.inode[i].ref_cnt = 1 /\ iv'.inode[i].ref_cnt = 0
          /\ iv.t.blocks \cap iv.bmap = {}
          /\ iv.inode[i].size = 0 /\ iv.inode[i].addrs = NoAddrs
          /\ iv.dinode[i].file_type = NO_TYPE /\ iv.dinode[i].size = 0
          /\ iv.dinode[i].addrs = NoAddrs
          /\ iv.intx /\ InTransaction(IBLOCK(i))
          /\ \A b \in iv.t.blocks : InTransaction(BBLOCK(b))
    /\ (iv'.bmap # iv.bmap \/ iv'.dinode # iv.dinode) =>
          /\ iv.t.pc = "free" /\ IputLast
          /\ iv.inode[i].ref_cnt = 1 /\ iv.inode[i].nlink = 0
          /\ \A j \in Inos \ {i} : iv'.dinode[j] = iv.dinode[j]

\* C18: when iput drops the last in-memory reference of a valid inode with
\* nlink == 0, then before ref_cnt reaches 0 all its data blocks (direct and
\* indirect) are free in the bitmap, its size is 0 and its on-disk type is
\* unset, all handed to log_write inside the caller's transaction; iput
\* never truncates an inode with nlink > 0 or ref_cnt > 1.
C18_IputFreesUnlinked == [][C18_Step]_vars

\* ---- usertrap
\* A process that entered usertrap for a system call with killed set does
\* not run the handler; one that has exited did so with a nonzero status.
C19_Inv ==
    /\ (kt.scause = SCAUSE_SYSCALL /\ kt.entry_killed # 0) =>
          /\ ~kt.ran
          /\ kt.pc \in {"syscall_chk", "exited"}
    /\ kt.pc = "exited" => kt.status # 0 /\ kt.xstate # 0

\* The process goes past a killed() test only with the flag clear.
C19_Step ==
    /\ (kt.pc = "syscall_chk" /\ kt'.pc = "syscall") => kt.killed = 0
    /\ (kt.pc = "killed_chk" /\ kt'.pc \in {"yield", "ret"}) => kt.killed = 0
    /\ (kt.pc \in {"syscall_chk", "killed_chk"} /\ kt.killed # 0
        /\ kt'.pc # kt.pc) => kt'.pc = "exited"

\* C19 (as amended): a process whose killed flag is set when it enters
\* usertrap for a system call does not run the handler and calls exit with
\* a nonzero status; a flag that is set when the process reaches the
\* killed() test after the handling makes it exit before usertrapret; the
\* process never goes past a killed() test with the flag set.
C19_KillSafePoints == [] C19_Inv /\ [][C19_Step]_vars

\* Killed at system call entry: exited without running the handler.
C19_Witness ==
    /\ kt.pc = "exited" /\ kt.scause = SCAUSE_SYSCALL /\ kt.entry_killed # 0
    /\ ~kt.ran /\ kt.xstate = 255

\* C19 (as stated): ... if the flag becomes set during trap handling, the
\* process exits before usertrapret; hence a process never returns to user
\* mode from a trap with killed set.
C19_NeverReturnsKilled ==
    [][(kt.pc = "ret" /\ kt'.pc = "user") => kt.killed = 0]_vars

\* ---- namex
RECURSIVE PathStr(_)
\* the path string: the bytes of the buffer before the first NUL
PathStr(raw) ==
    IF raw = <<>> \/ Head(raw) = NUL THEN <<>>
    ELSE <<Head(raw)>> \o PathStr(Tail(raw))

RECURSIVE NameRun(_)
\* length of the leading run of bytes other than '/'
NameRun(s) == IF s = <<>> \/ Head(s) = Slash THEN 0 ELSE 1 + NameRun(Tail(s))

RECURSIVE Components(_)
\* the non-empty '/'-separated components of a path string, in order
Components(s) ==
    IF s = <<>> THEN <<>>
    ELSE IF Head(s) = Slash THEN Components(Tail(s))
    ELSE <<SubSeq(s, 1, NameRun(s))>> \o Components(SubSeq(s, NameRun(s) + 1, Len(s)))

Truncated(c) == SubSeq(c, 1, IF Len(c) > DIRSIZ THEN DIRSIZ ELSE Len(c))

\* the names a resolution of the buffer is to look up, as directory names
ExpectedNames(raw, parent) ==
    LET cs == Components(PathStr(raw))
        n == IF parent /\ Len(cs) > 0 THEN Len(cs) - 1 ELSE Len(cs)
    IN  [i \in 1 .. n |-> PadTo(Truncated(cs[i]), DIRSIZ)]

\* C20: for every path, the names namex looks up with dirlookup are the
\* non-empty '/'-separated components of the path in order, each cut to
\* DIRSIZ bytes; the walk starts at the root for a path that begins with
\* '/' and at the cwd otherwise; nameiparent stops one component early and
\* returns the final component as the name.
C20_PathResolution ==
    /\ nx.pc # "panic"
    /\ nx.pc # "idle" =>
          /\ nx.start = (IF PathStr(nx.raw) # <<>> /\ Head(nx.raw) = Slash
                         THEN ROOTINO ELSE CwdIno)
          /\ IsPrefix(nx.looked, ExpectedNames(nx.raw, nx.parent))
    /\ (nx.pc = "done" /\ nx.ret # NoIno) =>
          /\ nx.looked = ExpectedNames(nx.raw, nx.parent)
          /\ nx.parent =>
                LET cs == Components(PathStr(nx.raw))
                IN  nx.name = Truncated(cs[Len(cs)])

\* ---- ialloc
FreeInos(dtype) == {i \in DInos : dtype[i] = NO_TYPE}
LowestFree(dtype) == CHOOSE i \in FreeInos(dtype) : \A j \in FreeInos(dtype) : i <= j
\* a create that called ialloc ends in this step
IallocCalled == ia.pc = "idle" /\ ia'.pc # "idle" /\ ia'.alloc # "none"

C21_Step ==
    IallocCalled =>
        /\ ia'.alloc # "panic"
        /\ FreeInos(ia.dtype) # {} =>
              /\ ia'.alloc = "some"
              /\ ia'.inum = LowestFree(ia.dtype)
              /\ IBLOCK(ia'.inum) \in ia'.logged
              /\ ia'.ret # 0 => ia'.dtype[ia'.inum] = ia'.file_type
        /\ FreeInos(ia.dtype) = {} =>
              /\ ia'.alloc = "fail"
              /\ ia'.dtype = ia.dtype /\ ia'.logged = {}
              /\ ia'.ret = 0 /\ ia'.dents = ia.dents

\* C21: ialloc returns the lowest-numbered on-disk inode whose type is 0,
\* for every inum of the inode blocks (the last inode of a block
\* included), and marks it through log_write; with no free inode it fails
\* without a panic and without changing a block, and the create that asked
\* for it fails with no directory entry added.
C21_Ialloc == [][C21_Step]_vars

\* ---- page table (vm.rs)
\* the leaf PTE of page u is valid in page table v
VmMapped(v, u) ==
    LET w == walk(v, VmRoot, u, 0) IN
    /\ w.kind = "pte"
    /\ BitAnd(v.pt[w.page][w.idx], PTE_V) = PTE_V
\* the leaf PTE of page u in v, 0 when an upper level is missing
VmLeaf(v, u) ==
    LET w == walk(v, VmRoot, u, 0) IN
    IF w.kind = "pte" THEN v.pt[w.page][w.idx] ELSE 0
VmNext == [pt |-> vm'.pt, free |-> vm'.free]
MappagesCalled == vm.pc = "idle" /\ vm'.pc # "idle" /\ vm'.c.call = "mappages"
UvmunmapCalled == vm.pc = "idle" /\ vm'.pc # "idle" /\ vm'.c.call = "uvmunmap"
OnePageCall ==
    /\ MappagesCalled
    /\ vm'.c.va \in VPages
    /\ vm'.c.pa % PGSIZE = 0
    /\ vm'.c.size = PGSIZE

C22_Step ==
    /\ (OnePageCall /\ ~VmMapped(VmNow, vm'.c.va)
          /\ BitAnd(vm'.c.perm, PTE_U) = PTE_U
          /\ vm'.c.msg = None /\ vm'.c.ret = 0)
       => /\ walkaddr(VmNext, VmRoot, vm'.c.va) = vm'.c.pa
          /\ \A u \in VPages \ {vm'.c.va} :
                walkaddr(VmNext, VmRoot, u) = walkaddr(VmNow, VmRoot, u)
    /\ (OnePageCall /\ VmMapped(VmNow, vm'.c.va))
       => vm'.c.msg = "mappages: remap"

\* C22: mapping one unmapped page-aligned va < MAXVA to a page-aligned pa
\* with PTE_U, when mappages returns 0, makes walkaddr(va) = pa and leaves
\* walkaddr of every other page as it was; mapping a page whose PTE is
\* already valid panics "mappages: remap".
C22_Mappages == [][C22_Step]_vars

\* a second page has just been mapped for user access next to an older one
C22_Witness ==
    /\ vm.pc = "ret" /\ vm.c.call = "mappages" /\ vm.c.ret = 0
    /\ vm.c.size = PGSIZE /\ vm.c.va \in VPages
    /\ BitAnd(vm.c.perm, PTE_U) = PTE_U
    /\ walkaddr(VmNow, VmRoot, vm.c.va) = vm.c.pa
    /\ \E u \in VPages \ {vm.c.va} : walkaddr(VmNow, VmRoot, u) \notin {NoPa, vm.c.pa}

\* the pages uvmunmap is asked to remove
UnmapPages(va, npages) == {va + i * PGSIZE : i \in 0 .. (npages - 1)}
VmIsLeaf(v, u) == VmMapped(v, u) /\ PTE_FLAGS(VmLeaf(v, u)) # PTE_V
RECURSIVE SeqSet(_)
SeqSet(q) == IF q = <<>> THEN {} ELSE {Head(q)} \cup SeqSet(Tail(q))

C23_Step ==
    (/\ UvmunmapCalled
     /\ vm'.c.va % PGSIZE = 0
     /\ UnmapPages(vm'.c.va, vm'.c.npages) \subseteq VPages
     /\ \A u \in UnmapPages(vm'.c.va, vm'.c.npages) : VmIsLeaf(VmNow, u))
    => /\ vm'.c.msg = None
       /\ \A u \in VPages :
             VmLeaf(VmNext, u) = IF u \in UnmapPages(vm'.c.va, vm'.c.npages)
                                 THEN 0 ELSE VmLeaf(VmNow, u)
       /\ SeqSet(vm'.free) =
             SeqSet(vm.free) \cup
             (IF vm'.c.do_free
              THEN {PTE2PA(VmLeaf(VmNow, u)) \div PGSIZE :
                       u \in UnmapPages(vm'.c.va, vm'.c.npages)}
              ELSE {})

\* C23: uvmunmap of npages valid leaf mappings starting at a page-aligned va
\* completes without panicking, clears exactly the PTEs of those pages,
\* leaves every other mapping as it was, and frees the mapped frames exactly
\* when do_free is set.
C23_Uvmunmap == [][C23_Step]_vars

\* ---- user memory (vm.rs uvmalloc, uvmfree, freewalk)
UvmallocCalled == vm.pc = "idle" /\ vm'.pc # "idle" /\ vm'.c.call = "uvmalloc"
UvmfreeCalled == vm.pc = "idle" /\ vm'.pc # "idle" /\ vm'.c.call = "uvmfree"

\* the pages of [from, to)
PagesIn(from, to) == {u \in VPages : from <= u /\ u < to}

\* the frame a valid leaf of v maps page u to
VmFrame(v, u) == PTE2PA(VmLeaf(v, u)) \div PGSIZE

\* the page-table pages of v: the root, level 1, level 0
VmChildren(v, page) ==
    {PTE2PA(v.pt[page][i]) \div PGSIZE :
        i \in {j \in 0 .. (PTE_SIZE - 1) : BitAnd(v.pt[page][j], PTE_V) = PTE_V}}
VmLevel1(v) == VmChildren(v, VmRoot) \cap VFrames
VmLevel0(v) == UNION {VmChildren(v, t) : t \in VmLevel1(v)} \cap VFrames
VmTables(v) == {VmRoot} \cup VmLevel1(v) \cup VmLevel0(v)

\* a sequence without a repeated element
NoRepeat(q) == \A i, j \in 1 .. Len(q) : i # j => q[i] # q[j]

\* C37: growing user memory.  uvmalloc(pt, oldsz, newsz, xperm) with
\* newsz > oldsz, the image below oldsz mapped and frames to spare returns
\* newsz; every page of [PGROUNDUP(oldsz), newsz) is then mapped with
\* R|U|xperm to a zero-filled frame of its own taken from the free list,
\* and the mappings below oldsz are as before.  A call that returns 0
\* leaves the page table and the free frames as they were.
C37_Step ==
    /\ (/\ UvmallocCalled
        /\ vm'.c.size > vm'.c.va
        /\ \A u \in PagesIn(0, vm'.c.va) : VmIsLeaf(VmNow, u)
        /\ \A u \in PagesIn(vm'.c.va, MAXVA) : ~VmMapped(VmNow, u)
        /\ Len(vm.free) >= Cardinality(PagesIn(vm'.c.va, vm'.c.size)) + 2)
       => /\ vm'.c.msg = None
          /\ vm'.c.ret = vm'.c.size
          /\ \A u \in PagesIn(PGROUNDUP(vm'.c.va), vm'.c.size) :
                /\ VmMapped(VmNext, u)
                /\ PTE_FLAGS(VmLeaf(VmNext, u))
                      = BitOr(BitOr(BitOr(PTE_R, PTE_U), vm'.c.perm), PTE_V)
                /\ VmFrame(VmNext, u) \in SeqSet(vm.free) \ SeqSet(vm'.free)
                /\ vm'.pt[VmFrame(VmNext, u)] = ZeroPage
                /\ \A w \in PagesIn(PGROUNDUP(vm'.c.va), vm'.c.size) \ {u} :
                      VmFrame(VmNext, w) # VmFrame(VmNext, u)
          /\ \A u \in PagesIn(0, vm'.c.va) : VmLeaf(VmNext, u) = VmLeaf(VmNow, u)
    /\ (UvmallocCalled /\ vm'.c.size > vm'.c.va
          /\ vm'.c.msg = None /\ vm'.c.ret = 0)
       => /\ \A u \in VPages : VmLeaf(VmNext, u) = VmLeaf(VmNow, u)
          /\ SeqSet(vm'.free) = SeqSet(vm.free)

C37_Uvmalloc == [][C37_Step]_vars

\* C38: freeing a user address space.  uvmfree(pt, sz) on a table whose
\* pages of [0, sz) are all mapped leaves, and no others, does not panic,
\* puts every user frame and every page-table page on the free list once;
\* and the "freewalk: leaf" panic is raised only with a valid leaf left.
C38_Step ==
    /\ (/\ UvmfreeCalled
        /\ \A u \in PagesIn(0, vm'.c.size) : VmIsLeaf(VmNow, u)
        /\ \A u \in PagesIn(vm'.c.size, MAXVA) : ~VmMapped(VmNow, u))
       => /\ vm'.c.msg = None
          /\ NoRepeat(vm'.free)
          /\ SeqSet(vm'.free)
                = SeqSet(vm.free) \cup VmTables(VmNow)
                    \cup {VmFrame(VmNow, u) : u \in PagesIn(0, vm'.c.size)}
    /\ (UvmfreeCalled /\ vm'.c.msg = "freewalk: leaf")
       => \E u \in VPages : VmIsLeaf(VmNext, u)

C38_Uvmfree == [][C38_Step]_vars

\* ---- orphans (proc.rs reparent, init.rs)
\* e's exit() is through with reparent
PastReparent(e) ==
    /\ wt.t[e].call = "exit"
    /\ \/ wt.t[e].pc \in {"zombie", "exited"}
       \/ wt.t[e].pc = "wakeup" /\ wt.t[e].wret = "zombie"
C30_Parents ==
    \A q \in WSlots, e \in WSlots :
        (wt.procs[q].state # "UNUSED" /\ wt.procs[q].parent = e) => ~PastReparent(e)
Orphans == WSlots \ {INIT_PROC, ShSlot}
C30_Reaped ==
    \A q \in Orphans :
        (wt.procs[q].state = "ZOMBIE" /\ wt.procs[q].parent = INIT_PROC)
            ~> (wt.procs[q].state = "UNUSED")

\* C30: once a process with children has exited every child's parent is
\* init, and under fair scheduling a child handed to init that is or
\* becomes ZOMBIE is eventually reaped by init's wait loop, whoever the
\* parent of the exiting process was.
C30_OrphanReaping == [] C30_Parents /\ C30_Reaped

\* ---- log among processes (log.rs)
LwSlots == {lw.L.block[i] : i \in 0 .. (lw.L.n - 1)}

\* C24: the header slots block[0..n) hold exactly the distinct block numbers
\* passed to log_write since the last commit, n is their number, and each of
\* them was pinned once (a repeated log_write of a block adds no slot and no
\* pin).
C24_Absorption ==
    /\ LwSlots = lw.passed
    /\ lw.L.n = Cardinality(lw.passed)
    /\ \A b \in BlockNos : lw.pins[b] = IF b \in lw.passed THEN 1 ELSE 0

LwCommitters == {p \in LwProcs : lw.pc[p] \in {"commit", "committed"}}
C25_Inv ==
    /\ lw.L.committing # 0 => lw.L.outstanding = 0
    /\ Cardinality(LwCommitters) <= 1
    /\ lw.L.committing # 0 <=> LwCommitters # {}
    /\ lw.msg # "log.committing"
C25_Step ==
    lw.L.committing # 0 =>
       /\ \A p \in LwProcs : lw'.pc[p] = "op" => lw.pc[p] = "op"
       /\ lw'.passed \subseteq lw.passed
       /\ lw'.L.block = lw.L.block
       /\ lw'.L.n \in {lw.L.n, 0}

\* C25: while committing is set no operation is outstanding, at most one
\* process is in commit(), no begin_op returns and no log_write runs until
\* committing is cleared, and end_op never panics "log.committing".
C25_Committing == [] C25_Inv /\ [][C25_Step]_vars

\* a commit of a logged block is in progress while another process sleeps
\* in begin_op
C25_Witness ==
    /\ lw.L.committing # 0 /\ lw.L.n > 0
    /\ \E p \in LwProcs : lw.pc[p] = "commit"
    /\ \E p \in LwProcs : lw.pc[p] = "sleep"

C26_Step ==
    lw'.L.outstanding > lw.L.outstanding =>
       /\ lw'.L.outstanding = lw.L.outstanding + 1
       /\ lw.L.committing = 0
       /\ lw.L.n + (lw.L.outstanding + 1) * MAXOPBLOCKS <= LOGSIZE

\* C26: begin_op increments outstanding only when committing is false and
\* header.n + (outstanding + 1) * MAXOPBLOCKS <= LOGSIZE, and header.n never
\* exceeds LOGSIZE.
C26_Reservation == [] (lw.L.n <= LOGSIZE) /\ [][C26_Step]_vars

\* a process sleeps in begin_op for space alone: the log holds a block and
\* the operations in progress have reserved the rest
C26_Witness ==
    /\ lw.L.committing = 0 /\ lw.L.n > 0
    /\ lw.L.n + (lw.L.outstanding + 1) * MAXOPBLOCKS > LOGSIZE
    /\ \E p \in LwProcs : lw.pc[p] = "sleep"

\* C27 as stated: under fair scheduling, with every operation reaching its
\* end_op, every process sleeping in begin_op is eventually woken and
\* returns from begin_op.
C27_SleeperReturns == \A p \in LwProcs : (lw.pc[p] = "sleep") ~> (lw.pc[p] = "op")

\* C27: under fair scheduling, with every operation reaching its end_op,
\* every process sleeping in begin_op is eventually woken (no wakeup is
\* lost) and takes another turn of begin_op's loop.
C27_SleeperWoken == \A p \in LwProcs : (lw.pc[p] = "sleep") ~> (lw.pc[p] = "woken")

\* a sleeper has been woken by the end of a commit
C27_Witness ==
    /\ lw.L.committing = 0 /\ lw.L.outstanding = 0
    /\ \E p \in LwProcs : lw.pc[p] = "woken"

\* ---- log
\* initlog, called by p, is over: it returned or it panicked.
InitlogEnded(p) == lt[p].call = "initlog" /\ lt[p].pc \in {"idle", "panic"}
NoCommitRunning == \A q \in Procs : lt[q].pc # "commit"

\* C1: while the header block on disk has n = 0 (no commit point passed)
\* the home blocks on disk keep their pre-transaction content, and a boot
\* that finds n = 0 in the header has initlog return with every home block
\* as it was.
C1_AtomicBeforeCommit ==
    /\ ~Pending(disk) => HomeOf(disk) = gh.base
    /\ \A p \in Procs : InitlogEnded(p) /\ ~Pending(gh.disk0) =>
          /\ lt[p].pc = "idle"
          /\ gh.fresh => HomeOf(disk) = HomeOf(gh.disk0)

\* C2: every block passed to log_write in a transaction is recorded in the
\* header until the commit, is at its home location with the logged
\* content once the commit is over, and a boot that finds a committed
\* header has recover_from_log put every block of it at its home location.
C2_Durability ==
    /\ NoCommitRunning =>
          \A b \in BlockNos : gh.wrote[b] # {} =>
              \E i \in 0 .. (LOG.n - 1) : LOG.block[i] = b
    /\ NoCommitRunning /\ ~Pending(disk) =>
          \A b \in BlockNos : gh.done[b] \subseteq {disk[b].v}
    /\ \A p \in Procs : InitlogEnded(p) /\ Pending(gh.disk0) =>
          /\ lt[p].pc = "idle"
          /\ gh.fresh => \A b \in BlockNos : Replay(gh.disk0)[b] \subseteq {disk[b].v}

\* C3: when initlog is over it has returned, log block i+1 has been copied
\* to home block block[i] for every i < n of the header found on disk, the
\* header on disk has n = 0, and with n = 0 found no home block has changed.
C3_BootRecovery ==
    \A p \in Procs : InitlogEnded(p) =>
        /\ lt[p].pc = "idle"
        /\ gh.fresh =>
              LET h == gh.disk0[LOGSTART] IN
              /\ \A i \in 0 .. (h.n - 1) : disk[h.block[i]] = gh.disk0[LOGSTART + i + 1]
              /\ disk[LOGSTART].n = 0
              /\ h.n = 0 => HomeOf(disk) = HomeOf(gh.disk0)

\* ---- buffer cache
Stamped(dev, blockno) ==
    {b \in Bufs : mem[b].dev = dev /\ mem[b].blockno = blockno}
\* p's latest call is bread and bget is through with the cache (the cache
\* was not exhausted).
Served(p) == bt[p].call = "bread" /\ bt[p].end # "idle"
                /\ bt[p].msg # "bget: no buffers"

\* C4: once bget has served a request for (dev, blockno), exactly one
\* buffer of the shared cache carries that stamp, it is referenced, and it
\* is the buffer a returning bread hands out.
C4_BufferUniqueness ==
    \A p \in Procs : Served(p) =>
        /\ Cardinality(Stamped(ROOTDEV, bt[p].req)) = 1
        /\ \A b \in Stamped(ROOTDEV, bt[p].req) : mem[b].refcnt >= 1
        /\ bt[p].end = "ret" => bt[p].buf \in Stamped(ROOTDEV, bt[p].req)

\* C5: a bread call either waits for the buffer's sleep lock or returns a
\* buffer of the shared cache whose sleep lock the caller holds and whose
\* refcnt counts the caller; no two callers are returned the same buffer.
C5_BreadReturnsLocked ==
    /\ \A p \in Procs : Served(p) =>
          /\ bt[p].end \in {"ret", "sleep"}
          /\ bt[p].end = "ret" =>
                /\ holding_sleep(mem[bt[p].buf].lock, p)
                /\ mem[bt[p].buf].refcnt >= 1
                /\ mem[bt[p].buf].valid
    /\ \A p, q \in Procs :
          p # q /\ Served(p) /\ Served(q) /\ bt[p].end = "ret" /\ bt[q].end = "ret"
             => bt[p].buf # bt[q].buf

\* the buffers reached from the sentinel in k steps along prev (LRU end
\* first), as far as the links go
RECURSIVE PrevWalk(_, _, _)
PrevWalk(m, a, k) ==
    IF k = 0 \/ m[a].prev = {} \/ m[a].prev = {HEAD} THEN <<>>
    ELSE <<unwrap(m[a].prev)>> \o PrevWalk(m, unwrap(m[a].prev), k - 1)
RECURSIVE NextWalk(_, _, _)
NextWalk(m, a, k) ==
    IF k = 0 \/ m[a].next = {} \/ m[a].next = {HEAD} THEN <<>>
    ELSE <<unwrap(m[a].next)>> \o NextWalk(m, unwrap(m[a].next), k - 1)
\* the first unreferenced buffer of a walk, HEAD when there is none
RECURSIVE FirstFree(_, _)
FirstFree(m, q) ==
    IF q = <<>> THEN HEAD
    ELSE IF m[Head(q)].refcnt = 0 THEN Head(q) ELSE FirstFree(m, Tail(q))
\* p's bread in this step asks for a block no buffer carries
BgetMiss(p) ==
    /\ bt'[p] # bt[p] /\ bt'[p].call = "bread"
    /\ Stamped(ROOTDEV, bt'[p].req) = {}

C28_Step ==
    \A p \in Procs : BgetMiss(p) =>
        /\ bt'[p].end \in {"ret", "panic"}
        /\ IF \E b \in Bufs : mem[b].refcnt = 0
           THEN /\ bt'[p].end = "ret"
                /\ bt'[p].buf = FirstFree(mem, PrevWalk(mem, HEAD, NBUF))
                /\ mem'[bt'[p].buf].dev = ROOTDEV
                /\ mem'[bt'[p].buf].blockno = bt'[p].req
                /\ mem'[bt'[p].buf].refcnt = 1
           ELSE bt'[p].msg = "bget: no buffers"

\* C28: bget on a miss terminates; it takes the unreferenced buffer closest
\* to the LRU end of the list, stamps that shared buffer with (dev, blockno)
\* and refcnt 1 and returns it; when every buffer is referenced it panics
\* "bget: no buffers".
C28_BgetMiss == [][C28_Step]_vars

\* C29: once binit has run, following next from BCACHE.head visits each of
\* the NBUF buffers exactly once and comes back to the head, and prev is the
\* exact inverse of next.
C29_Ring ==
    booted =>
       LET ring == NextWalk(mem, HEAD, NBUF + 1) IN
       /\ Len(ring) = NBUF
       /\ {ring[i] : i \in 1 .. Len(ring)} = Bufs
       /\ mem[ring[NBUF]].next = {HEAD}
       /\ \A a \in {HEAD} \cup Bufs :
             mem[a].next # {} /\ mem[unwrap(mem[a].next)].prev = {a}

\* The shared list is circular through the sentinel.
ListOK ==
    \A a \in {HEAD} \cup Bufs :
        /\ mem[a].next # {} /\ mem[a].prev # {}
        /\ mem[unwrap(mem[a].next)].prev = {a}

\* p's brelse(b) returns in this step, leaving b unreferenced.
BrelseToZero(p) ==
    /\ bt'[p] # bt[p] /\ bt'[p].call = "brelse" /\ bt'[p].end = "ret"
    /\ mem'[bt'[p].buf].refcnt = 0

\* C6: after binit the buffers form the shared list headed by
\* BCACHE.head, a brelse that drops refcnt to 0 leaves the buffer first
\* after the head (head.next == b, b.prev == head), and brelse never
\* panics on a missing link.
C6_Inv ==
    /\ booted => ListOK
    /\ \A p \in Procs : bt[p].call = "brelse" => bt[p].msg # "unwrap on None"
C6_Step ==
    \A p \in Procs : BrelseToZero(p) =>
        /\ mem'[HEAD].next = {bt'[p].buf}
        /\ mem'[bt'[p].buf].prev = {HEAD}
C6_ReleaseMovesToFront == [] C6_Inv /\ [][C6_Step]_vars

\* ---- processes
IndexOf(p) == CHOOSE i \in 1 .. Len(PROCS) : PROCS[i] = p

\* a's wakeup of the queue channel has not yet gone past b in PROCS.
WakeupPending(a, b) ==
    /\ th[a].pc \in {"wakeup", "wake_chk"}
    /\ th[a].wchan = QueueChan
    /\ th[a].widx <= IndexOf(b)

\* C7: no lost wakeup.  A consumer that sleeps on the queue's channel while
\* the queue holds work enqueued by the producer still has the producer's
\* wakeup ahead of it; and when its sleep returns it holds lk again and,
\* if the producer enqueued after the sleep call, sees the enqueued work.
C7_NoLostWakeup ==
    \A b \in Consumers :
        /\ (procs[b].state = "SLEEPING" /\ procs[b].chan = QueueChan /\ work > 0)
              => \E a \in Producers : WakeupPending(a, b)
        /\ (th[b].pc = "cons_back" /\ Runs(b))
              => /\ holding(locks, LK, CpuOf(b))
                 /\ th[b].enq => work > 0
                 /\ procs[b].state = "RUNNING" /\ procs[b].chan = NoChan

\* The consumer has returned from a sleep that the producer's wakeup ended.
C7_Witness ==
    /\ th["B"].pc = "cons_back" /\ Runs("B")
    /\ th["B"].enq /\ work > 0

\* C8 (as claimed): when release_sleep's wakeup has returned, no process
\* is left sleeping in acquire_sleep on that sleep lock.
C8_ReleaseWakesWaiters ==
    \A p \in Procs :
        th[p].pc = "rs_rel"
            => ~ \E q \in Procs : /\ procs[q].state = "SLEEPING"
                                  /\ procs[q].chan = acquire_chan(q)

\* C9: spinlock mutual exclusion.  At most one hart is between acquire()'s
\* return and its release() of a lock; the lock then records that hart, so
\* holding() is true there and false elsewhere; acquire panics "acquire"
\* exactly when the caller holds the lock, release panics "release"
\* exactly when it does not.
C9_MutualExclusion ==
    /\ \A l \in FreeLocks : \A c1, c2 \in Cpus :
          (l \in held[c1] /\ l \in held[c2]) => c1 = c2
    /\ \A l \in FreeLocks : \A c \in Cpus :
          l \in held[c] =>
              /\ locks[l].cpu = {c}
              /\ holding(locks, l, c)
              /\ \A c2 \in Cpus \ {c} : ~holding(locks, l, c2)
    /\ \A c \in Cpus :
          /\ hpanic[c] = "acquire" <=> (hcall[c] = "acquire" /\ callHeld[c])
          /\ hpanic[c] = "release" <=> (hcall[c] = "release" /\ ~callHeld[c])

\* One hart is inside the critical section of a lock another hart spins on,
\* and a third party to neither has panicked on a double acquire or not.
C9_Witness ==
    \E c1, c2 \in Cpus :
        /\ c1 # c2
        /\ LK \in held[c1]
        /\ hpc[c2] = "acq_spin" /\ harg[c2] = LK /\ hpanic[c2] = None

\* C10: interrupt nesting.  Interrupts are off on a hart while its noff is
\* positive; when a process thread's release brings noff back to 0 the
\* interrupt enable bit is what it was before the thread's outermost
\* acquire; and after sched() returns, the hart's intena is the value the
\* thread had when it entered sched().
C10_Inv ==
    /\ \A c \in Cpus : cpus[c].noff > 0 => ~cpus[c].sie
    /\ \A p \in Procs : \A c \in Cpus :
          (OnCpu(p, c) /\ th[p].pc \in {"yield_rel", "sleep_tidy"})
              => cpus[c].intena = th[p].intena

C10_Step ==
    \A p \in Procs : \A c \in Cpus :
        (/\ OnCpu(p, c) /\ cpus'[c].proc = {p} /\ sch'[c].pc = "away"
         /\ cpus[c].noff > 0 /\ cpus'[c].noff = 0
         /\ th[p].before # {})
            => cpus'[c].sie \in th[p].before

C10_InterruptNesting == [] C10_Inv /\ [][C10_Step]_vars

\* A thread that took lk with interrupts off is back from sched() inside
\* sleep, on a hart whose scheduler had interrupts on.
C10_Witness ==
    \E p \in Procs : \E c \in Cpus :
        /\ OnCpu(p, c) /\ th[p].pc = "sleep_reacq"
        /\ th[p].before = {FALSE}
        /\ cpus[c].noff = 0 /\ ~cpus[c].sie

====
